---- MODULE Spec2Model ----
(***************************************************************************)
(* A model of the positional inverted-index engine: the VarByte and        *)
(* position codecs, the per-run dictionary and the SPIMI ingest loop, the  *)
(* run-file format and the k-way merge, the chunk/block writer of the      *)
(* merged index and its reader, and the in-memory term directory.          *)
(*                                                                         *)
(* Bytes are naturals 0..255 and byte buffers are sequences of them.  u32  *)
(* values are naturals; the inputs the model draws stay below 2^31, the    *)
(* largest integer the checker represents.                                 *)
(***************************************************************************)
EXTENDS Integers, Sequences, FiniteSets, TLC

VARIABLES
    \* ---- codec harness (compressors/vb_encode.rs, indexer/helper.rs)
    vb_stage,        \* "input" | "encoded" | "decoded"
    vb_num,          \* the u32 handed to vb_encode
    vb_tail,         \* bytes that follow the encoding in the buffer
    vb_buf,          \* the buffer handed to vb_decode
    vb_res,          \* what vb_decode returned
    pos_stage,       \* "input" | "encoded" | "decoded"
    pos_in,          \* the positions handed to vb_encode_positions
    pos_buf,         \* the bytes it produced
    pos_res,         \* what vb_decode_positions returned
    \* ---- merged index writer and block reader (indexer/index_merge_writer.rs,
    \*      indexer/block.rs, indexer/chunk.rs)
    writer,          \* the MergedIndexBlockWriter, its index file included
    added,           \* the posting lists handed to add_term, by term id
    finished,        \* finish() has been called
    read_term,       \* the term id last read back from the index file (0: none)
    read_result,     \* what reading it gave
    \* ---- SPIMI ingest (indexer/spimi.rs, dictionary/mod.rs)
    channel,         \* the records sent and not yet received
    sender_open,     \* the sender has not been dropped
    sent,            \* every record sent so far, in order
    received,        \* every record rx.recv() returned so far, in order
    dictionary,      \* the Dictionary of the Spmi
    max_size,        \* what Dictionary::max_size() returns
    spimi_state,     \* "running" | "ok" | "err": the return of the function
    \* ---- the file system: path -> bytes
    fs,
    \* ---- merge and term directory (indexer/spimi.rs, index_metadata.rs)
    runs,            \* the dictionaries the run files were written from
    metadata,        \* the InMemoryIndexMetatdata the merge returned
    merged_terms,    \* the terms the merge emitted, in order
    merge_state,     \* "ready" | "ok" | "err"
    lookup_term,     \* the term last looked up in the directory
    lookup_id,       \* what get_term_id returned for it
    \* ---- posting-list codec (indexer/helper.rs)
    pl_stage,        \* "input" | "encoded" | "decoded"
    pl_in,           \* the posting list handed to vb_encode_posting_list
    pl_buf,          \* the bytes it produced
    pl_res,          \* what vb_decode_posting_list returned
    \* ---- run file written and read back (indexer/spimi.rs,
    \*      indexer/index_merge_iterator.rs)
    rf_stage,        \* "dictionary" | "written" | "iterating"
    rf_dict,         \* the Dictionary written
    rf_file,         \* the bytes of the run file
    rf_it,           \* the IndexMergeIterator on it
    rf_seen,         \* the (term, postings) pairs the iterator exposed, in order
    rf_returns,      \* what the calls of next() returned, in order
    \* ---- metadata lookups in the term directory (map_in_memory_dict.rs)
    md_term,         \* the term last handed to get_term_metadata
    md_result,       \* how the call ended, and the pointer it returned
    \* ---- query entry point (search_engine/mod.rs, query_parser/tokenizer.rs)
    q_stage,         \* "query" | "handled"
    q_query,         \* the query string handed to handle_query
    q_result,        \* what handle_query returned, and the tokens it went on with
    \* ---- conjunctive match (query_processor/query_processor.rs)
    qp_stage,        \* "corpus" | "indexed" | "answered"
    qp_lists,        \* the posting list of every term id of the corpus
    qp_index,        \* the writer that wrote the index file for them
    qp_query,        \* the term ids handed to process_query
    qp_result,       \* the doc-id set process_query computed
    \* ---- phrase filter (positional_intersect.rs)
    ph_stage,        \* "query" | "found"
    ph_docs,         \* the documents indexed: doc-id -> tokens, positions from 0
    ph_words,        \* the words of the query, in query order
    ph_phrase,       \* the phrase_matching flag of the call
    ph_result,       \* what find_documents_optimized returned
    \* ---- ranking workers of handle_query (search_engine.rs)
    rk_in,           \* what the workers capture: words, posting lists, scores
    rk_workers,      \* per worker: its position, the docs found, its top_k
    rk_chan,         \* per channel: the messages in flight, whether tx lives
    rk_co,           \* the coordinator: its position, the lists received,
                     \* query_result
    \* ---- Indexer::index (indexer/indexer.rs)
    ix_pc,           \* "producing" | "merging" | "returned" | "panicked"
    ix_result,       \* what index() returned
    \* ---- blocked term dictionary (in_memory_dict.rs)
    dc_dict,         \* the InMemoryDict
    dc_added,        \* the terms added to it, in order, with their offsets
    dc_term,         \* the term last handed to find
    dc_result,       \* what find returned for it
    \* ---- merge of two posting lists (positional_intersect.rs)
    mp_stage,        \* "input" | "merged"
    mp_p1,           \* the left argument of merge_postings
    mp_p2,           \* the right argument
    mp_result,       \* the list returned
    \* ---- chunk lookup in a block (indexer/block.rs)
    gc_stage,        \* "input" | "called"
    gc_id,           \* the id handed to get_chunk_for_term
    gc_chunks,       \* the chunk list handed to it
    gc_result        \* how the call ended, and the chunk it returned

codec_vars == <<vb_stage, vb_num, vb_tail, vb_buf, vb_res,
                pos_stage, pos_in, pos_buf, pos_res>>

writer_vars == <<writer, added, finished, read_term, read_result>>

ingest_vars == <<channel, sender_open, sent, received, dictionary, max_size, spimi_state>>

merge_vars == <<runs, metadata, merged_terms, merge_state, lookup_term, lookup_id>>

postings_vars == <<pl_stage, pl_in, pl_buf, pl_res>>

\* the state of the harnesses added after the merge
runfile_vars == <<rf_stage, rf_dict, rf_file, rf_it, rf_seen, rf_returns>>

directory_vars == <<md_term, md_result>>

query_vars == <<q_stage, q_query, q_result>>

processor_vars == <<qp_stage, qp_lists, qp_index, qp_query, qp_result>>

phrase_vars == <<ph_stage, ph_docs, ph_words, ph_phrase, ph_result>>

ranking_vars == <<rk_in, rk_workers, rk_chan, rk_co>>

index_vars == <<ix_pc, ix_result>>

\* the state of the harnesses after the phrase filter
dict_vars == <<dc_dict, dc_added, dc_term, dc_result>>

postings_merge_vars == <<mp_stage, mp_p1, mp_p2, mp_result>>

chunk_lookup_vars == <<gc_stage, gc_id, gc_chunks, gc_result>>

\* the state of the harnesses after Indexer::index
more_vars == <<dict_vars, postings_merge_vars, chunk_lookup_vars>>

late_vars == <<ranking_vars, index_vars, more_vars>>

aux_vars == <<postings_vars, runfile_vars, directory_vars, query_vars, processor_vars,
              phrase_vars, late_vars>>

\* the state of the harnesses up to the merge
base_vars == <<codec_vars, writer_vars, ingest_vars, fs, merge_vars>>

vars == <<base_vars, aux_vars>>

(***************************************************************************)
(* Bounds of the model.                                                    *)
(***************************************************************************)
\* every u32 in 0..MaxSmallNum is an input of the VarByte codec
MaxSmallNum == 300
\* longest position list the position codec is run on
MaxPositions == 3
\* number of add_term calls made on one writer
MaxTerms == 2
\* number of records sent on the ingest channel
MaxRecords == 3
\* number of run files merged
MaxRuns == 2
\* number of postings over all run files
MaxRunPostings == 3

(***************************************************************************)
(* Generic helpers.                                                        *)
(***************************************************************************)
Min(S) == CHOOSE x \in S : \A y \in S : x <= y

RECURSIVE SetToSortedSeq(_)
\* the elements of a finite set of naturals in ascending order
SetToSortedSeq(S) ==
    IF S = {} THEN <<>>
    ELSE LET m == Min(S) IN <<m>> \o SetToSortedSeq(S \ {m})

\* F applied to the value of e; e is bound by CHOOSE's set, so that it is
\* evaluated once however often F uses it
Apply(F(_), e) == CHOOSE r \in {F(x) : x \in {e}} : TRUE

RECURSIVE Loop(_, _, _, _)
\* iterations lo .. hi-1 of a loop applied in order to the loop's state;
\* `done` in the state says that the loop was left (break, return), and
\* the remaining iterations are skipped.  The range is split in halves to
\* keep the evaluation shallow.
Loop(Body(_, _), state, lo, hi) ==
    IF hi <= lo \/ state.done THEN state
    ELSE IF hi = lo + 1 THEN Body(state, lo)
    ELSE Apply(LAMBDA left : IF left.done THEN left
                             ELSE Loop(Body, left, (lo + hi) \div 2, hi),
               Loop(Body, state, lo, (lo + hi) \div 2))

\* the first 0-based index >= from of a zero byte, Len(bytes) if there is none
FirstZero(bytes, from) ==
    IF \E j \in from .. Len(bytes) - 1 : bytes[j + 1] = 0
    THEN CHOOSE j \in from .. Len(bytes) - 1 :
             /\ bytes[j + 1] = 0
             /\ \A k \in from .. j - 1 : bytes[k + 1] # 0
    ELSE Len(bytes)

\* bytes[from..] of a Rust slice, with 0-based `from`
SliceFrom(bytes, from) == SubSeq(bytes, from + 1, Len(bytes))

\* bytes[from..to] of a Rust slice, 0-based, `to` exclusive
Slice(bytes, from, to) == SubSeq(bytes, from + 1, to)

(***************************************************************************)
(* VarByte codec: compressors/vb_encode.rs                                 *)
(***************************************************************************)
\* stands for every u32 of 2^31 and more
HugeU32 == 2147483647

\* a + b of two u32 values, values of 2^31 and more collapsed to HugeU32
AddU32(a, b) == IF b > HugeU32 - a THEN HugeU32 ELSE a + b

\* largest u32 that can still be multiplied by 128 (and have a 7-bit digit
\* added) without leaving u32: (2^32 - 1) div 128
U32MaxDiv128 == 33554431

RECURSIVE vb_encode_loop(_, _)
\* the loop of vb_encode: the low base-128 digit is inserted at the front
vb_encode_loop(mutable_num, bytes) ==
    LET pushed == <<mutable_num % 128>> \o bytes
    IN  IF mutable_num < 128 THEN pushed
        ELSE vb_encode_loop(mutable_num \div 128, pushed)

\* a slip that appends the digit instead of inserting it at index 0
RECURSIVE vb_encode_loop_little_endian(_, _)
vb_encode_loop_little_endian(mutable_num, bytes) ==
    LET pushed == bytes \o <<mutable_num % 128>>
    IN  IF mutable_num < 128 THEN pushed
        ELSE vb_encode_loop_little_endian(mutable_num \div 128, pushed)

vb_encode_little_endian(num) ==
    LET bytes == vb_encode_loop_little_endian(num, <<>>)
    IN  [bytes EXCEPT ![Len(bytes)] = @ + 128]

vb_encode(num) ==
    LET bytes == vb_encode_loop(num, <<>>)
    IN  [bytes EXCEPT ![Len(bytes)] = @ + 128]

RECURSIVE vb_decode_loop(_, _, _, _)
\* the for loop of vb_decode over bytes[bytes_read+1..]; `overflow` records
\* that number * 128 + digit left u32 (a panic in a debug build, a wrapped
\* value in a release build)
vb_decode_loop(bytes, number, bytes_read, overflow) ==
    IF bytes_read >= Len(bytes)
    THEN [number |-> number, bytes_read |-> bytes_read, overflow |-> overflow]
    ELSE LET byte == bytes[bytes_read + 1]
             over == overflow \/ number > U32MaxDiv128
             digit == IF byte < 128 THEN byte ELSE byte - 128
             next == IF number >= 16777216 THEN HugeU32
                     ELSE number * 128 + digit
         IN  IF byte < 128
             THEN vb_decode_loop(bytes, next, bytes_read + 1, over)
             ELSE [number |-> next, bytes_read |-> bytes_read + 1,
                   overflow |-> over]

\* a slip that forgets to strip the terminator bit of the last byte
RECURSIVE vb_decode_loop_keep_flag(_, _, _, _)
vb_decode_loop_keep_flag(bytes, number, bytes_read, overflow) ==
    IF bytes_read >= Len(bytes)
    THEN [number |-> number, bytes_read |-> bytes_read, overflow |-> overflow]
    ELSE LET byte == bytes[bytes_read + 1]
             next == number * 128 + byte
         IN  IF byte < 128
             THEN vb_decode_loop_keep_flag(bytes, next, bytes_read + 1, overflow)
             ELSE [number |-> next, bytes_read |-> bytes_read + 1,
                   overflow |-> overflow]

vb_decode_keep_flag(bytes) == vb_decode_loop_keep_flag(bytes, 0, 0, FALSE)

vb_decode(bytes) == vb_decode_loop(bytes, 0, 0, FALSE)

(***************************************************************************)
(* Position codec: indexer/helper.rs                                       *)
(***************************************************************************)
\* one iteration of the while loop of vb_decode_positions
vb_decode_positions_body(bytes, st) ==
    IF st.offset >= Len(bytes) THEN [st EXCEPT !.done = TRUE]
    ELSE LET d == vb_decode(SliceFrom(bytes, st.offset))
             position == d.number
         IN  IF d.bytes_read = 0 THEN [st EXCEPT !.done = TRUE]
             ELSE IF st.last_position = 0
             THEN [st EXCEPT !.positions = Append(@, position),
                             !.last_position = position,
                             !.offset = @ + d.bytes_read]
             ELSE [st EXCEPT !.positions = Append(@, AddU32(st.last_position, position)),
                             !.last_position = AddU32(@, position),
                             !.offset = @ + d.bytes_read]

\* every iteration consumes a byte at least: Len(bytes) iterations suffice
vb_decode_positions(bytes) ==
    Loop(LAMBDA st, k : vb_decode_positions_body(bytes, st),
         [offset |-> 0, last_position |-> 0, positions |-> <<>>, done |-> FALSE],
         0, Len(bytes)).positions

\* one iteration of the for loop of vb_encode_positions; position -
\* last_position is a u32 subtraction (the inputs are ascending)
vb_encode_positions_body(positions, st, i) ==
    LET position == positions[i + 1]
    IN  IF st.last_position = 0
        THEN [st EXCEPT !.out = @ \o vb_encode(position),
                        !.last_position = position]
        ELSE [st EXCEPT !.out = @ \o vb_encode(position - st.last_position),
                        !.last_position = position]

\* a slip that never updates last_position, so every delta is taken
\* against the first position
vb_encode_positions_body_stale_last(positions, st, i) ==
    LET position == positions[i + 1]
    IN  IF st.last_position = 0
        THEN [st EXCEPT !.out = @ \o vb_encode(position),
                        !.last_position = position]
        ELSE [st EXCEPT !.out = @ \o vb_encode(position - st.last_position)]

vb_encode_positions_stale_last(positions) ==
    Loop(LAMBDA st, i : vb_encode_positions_body_stale_last(positions, st, i),
         [last_position |-> 0, out |-> <<>>, done |-> FALSE],
         0, Len(positions)).out

vb_encode_positions(positions) ==
    Loop(LAMBDA st, i : vb_encode_positions_body(positions, st, i),
         [last_position |-> 0, out |-> <<>>, done |-> FALSE],
         0, Len(positions)).out

(***************************************************************************)
(* Little-endian integers of the on-disk formats.                          *)
(***************************************************************************)
\* n.to_le_bytes() of a u32
u32_to_le_bytes(n) ==
    <<n % 256, (n \div 256) % 256, (n \div 65536) % 256, (n \div 16777216) % 256>>

\* (n as u16).to_le_bytes()
u16_to_le_bytes(n) == <<n % 256, (n \div 256) % 256>>

\* u32::from_le_bytes of four bytes
u32_from_le_bytes(b) ==
    IF b[4] >= 128 THEN HugeU32
    ELSE b[1] + 256 * b[2] + 65536 * b[3] + 16777216 * b[4]

\* u16::from_le_bytes of two bytes
u16_from_le_bytes(b) == b[1] + 256 * b[2]

(***************************************************************************)
(* Chunk: indexer/chunk.rs                                                 *)
(***************************************************************************)
POSITIONS_DELIMITER == 0

\* Chunk::new
NewChunk(term) ==
    [size_of_chunk |-> 8, max_doc_id |-> 0, last_doc_id |-> 0,
     no_of_postings |-> 0, term |-> term, doc_ids |-> <<>>, positions |-> <<>>]

\* Chunk::finish
ChunkFinish(c) ==
    IF Len(c.doc_ids) > 0
    THEN [c EXCEPT !.doc_ids = Append(@, POSITIONS_DELIMITER),
                   !.size_of_chunk = @ + 1]
    ELSE c

\* Chunk::reset (the term is kept)
ChunkReset(c) ==
    [c EXCEPT !.size_of_chunk = 8, !.last_doc_id = 0, !.max_doc_id = 0,
              !.positions = <<>>, !.doc_ids = <<>>, !.no_of_postings = 0]

\* Chunk::encode
ChunkEncode(c) ==
    u32_to_le_bytes(c.size_of_chunk) \o u32_to_le_bytes(c.max_doc_id)
        \o c.doc_ids \o c.positions

\* Chunk::encode_doc_id (a u32 subtraction)
encode_doc_id(c, doc_id) == vb_encode(doc_id - c.last_doc_id)

\* Chunk::encode_positions
encode_positions(positions) ==
    Append(vb_encode_positions(positions), POSITIONS_DELIMITER)

\* set_max_doc_id, add_encoded_doc_id, add_encoded_positions and the
\* increment of no_of_postings, as add_term applies them to one posting
ChunkAddPosting(c, doc_id, encoded_doc_id, encoded_positions) ==
    [c EXCEPT !.max_doc_id = IF doc_id > @ THEN doc_id ELSE @,
              !.last_doc_id = doc_id,
              !.size_of_chunk = @ + Len(encoded_doc_id) + Len(encoded_positions),
              !.doc_ids = @ \o encoded_doc_id,
              !.positions = @ \o encoded_positions,
              !.no_of_postings = @ + 1]

(***************************************************************************)
(* Block (writing side): indexer/block.rs                                  *)
(***************************************************************************)
BLOCK_SIZE == 64000

\* Block::new; block_bytes holds the array up to its last byte ever
\* written, the rest of the BLOCK_SIZE bytes being zero
NewBlock ==
    [current_block_size |-> 4, current_chunk |-> NewChunk(0),
     chunks |-> <<>>, terms |-> <<>>, block_bytes |-> <<>>]

\* Block::reset (block_bytes is left as it is)
BlockReset(b) ==
    [b EXCEPT !.current_block_size = 4, !.chunks = <<>>, !.terms = <<>>]

\* Block::space_used
space_used(b) == b.current_block_size + 1 + b.current_chunk.size_of_chunk

\* Block::add_current_chunk
add_current_chunk(b) ==
    [b EXCEPT !.chunks = Append(@, b.current_chunk),
              !.current_block_size = @ + b.current_chunk.size_of_chunk]

\* Block::add_term
BlockAddTerm(b, term) ==
    [b EXCEPT !.current_block_size = @ + 6, !.terms = Append(@, term)]

RECURSIVE EncodeChunksLoop_offset_per_chunk(_, _, _, _, _, _)
\* a loop over self.chunks that emits an offset at every chunk, not only at
\* the first chunk of a term
EncodeChunksLoop_offset_per_chunk(chunks, i, term_offset_start, term_set, term_offsets, encoded_chunks) ==
    IF i > Len(chunks)
    THEN [term_offsets |-> term_offsets, encoded_chunks |-> encoded_chunks]
    ELSE EncodeChunksLoop_offset_per_chunk(chunks, i + 1,
             term_offset_start + Len(chunks[i].doc_ids) + Len(chunks[i].positions) + 8,
             term_set,
             term_offsets \o <<term_offset_start % 256, (term_offset_start \div 256) % 256>>,
             encoded_chunks \o <<chunks[i].size_of_chunk % 256,
                                 (chunks[i].size_of_chunk \div 256) % 256,
                                 (chunks[i].size_of_chunk \div 65536) % 256,
                                 (chunks[i].size_of_chunk \div 16777216) % 256,
                                 chunks[i].max_doc_id % 256,
                                 (chunks[i].max_doc_id \div 256) % 256,
                                 (chunks[i].max_doc_id \div 65536) % 256,
                                 (chunks[i].max_doc_id \div 16777216) % 256>>
                 \o chunks[i].doc_ids \o chunks[i].positions)

RECURSIVE EncodeChunksLoop(_, _, _, _, _, _)
\* the loop of Block::encode over self.chunks: the offset of a term is
\* emitted at its first chunk
EncodeChunksLoop(chunks, i, term_offset_start, term_set, term_offsets, encoded_chunks) ==
    IF i > Len(chunks)
    THEN [term_offsets |-> term_offsets, encoded_chunks |-> encoded_chunks]
    ELSE LET chunk == chunks[i]
             fresh == chunk.term \notin term_set
         IN  EncodeChunksLoop(chunks, i + 1,
                 term_offset_start + Len(chunk.doc_ids) + Len(chunk.positions) + 8,
                 term_set \cup {chunk.term},
                 IF fresh THEN term_offsets \o u16_to_le_bytes(term_offset_start)
                 ELSE term_offsets,
                 encoded_chunks \o ChunkEncode(chunk))

RECURSIVE FlattenU32(_, _)
FlattenU32(terms, i) ==
    IF i > Len(terms) THEN <<>>
    ELSE u32_to_le_bytes(terms[i]) \o FlattenU32(terms, i + 1)

\* the bytes Block::encode copies to the front of block_bytes
BlockContent(b) ==
    LET e == EncodeChunksLoop(b.chunks, 1, 6 * Len(b.terms) + 4, {}, <<>>, <<>>)
    IN  u32_to_le_bytes(Len(b.terms)) \o FlattenU32(b.terms, 1)
            \o e.term_offsets \o e.encoded_chunks

\* Block::encode: the content overwrites the front of block_bytes, what
\* lies behind it stays
BlockEncode(b) ==
    LET content == BlockContent(b)
    IN  [b EXCEPT !.block_bytes =
            content \o SubSeq(@, Len(content) + 1, Len(@))]

(***************************************************************************)
(* MergedIndexBlockWriter: indexer/index_merge_writer.rs                   *)
(***************************************************************************)
BytesPerKb == 1000
MaxPostingsPerChunk == 128

\* MergedIndexBlockWriter::new; `file` is the index file as the sequence of
\* the blocks written to it, each with the block's terms and chunks as they
\* were when it was written; `panicked`: Block::encode was given more than
\* BLOCK_SIZE bytes
NewWriter(max_block_size) ==
    [term_metadata |-> <<>>, current_block_no |-> 0, current_block |-> NewBlock,
     file |-> <<>>, max_block_size |-> max_block_size, panicked |-> FALSE]

MaxBlockBytes(w) == w.max_block_size * BytesPerKb

\* write_block_to_index_file
write_block_to_index_file(w) ==
    LET b == BlockEncode(w.current_block)
    IN  [w EXCEPT !.current_block = b,
                  !.file = Append(@, [block_bytes |-> b.block_bytes,
                                      terms |-> b.terms, chunks |-> b.chunks]),
                  !.panicked = @ \/ Len(BlockContent(w.current_block)) > BLOCK_SIZE,
                  !.current_block_no = @ + 1]

\* initialize_term_metadata, add_block_to_term_metadata and
\* add_frequency_to_term_metadata at the head of add_term
InitTermMetadata(w, term, frequency) ==
    [w EXCEPT !.term_metadata =
        [t \in DOMAIN @ \cup {term} |->
            IF t = term
            THEN [block_ids |-> <<w.current_block_no>>, term_frequency |-> frequency]
            ELSE @[t]]]

\* add_block_to_term_metadata
add_block_to_term_metadata(w, term, block_no) ==
    IF term \in DOMAIN w.term_metadata
    THEN [w EXCEPT !.term_metadata[term].block_ids = Append(@, block_no)]
    ELSE w

\* current_chunk.finish(); add_current_chunk(); reset_current_chunk()
CloseChunk(w) ==
    LET finishedChunk == ChunkFinish(w.current_block.current_chunk)
        b1 == add_current_chunk([w.current_block EXCEPT !.current_chunk = finishedChunk])
    IN  [w EXCEPT !.current_block = [b1 EXCEPT !.current_chunk = ChunkReset(@)]]

\* the branch of add_term taken when the posting does not fit: the chunk is
\* closed, the block written and reset, and the term re-recorded
StartNextBlock(w, term) ==
    LET finishedChunk == ChunkFinish(w.current_block.current_chunk)
        w1 == [w EXCEPT !.current_block =
                  add_current_chunk([@ EXCEPT !.current_chunk = finishedChunk])]
        w2 == write_block_to_index_file(w1)
        w3 == [w2 EXCEPT !.current_block =
                  BlockAddTerm(BlockReset([@ EXCEPT !.current_chunk = ChunkReset(@)]), term)]
    IN  add_block_to_term_metadata(w3, term, w3.current_block_no)

\* one iteration of the loop of add_term, i postings already placed
add_term_body(term, postings, st, i) ==
    LET w == st.w
        wa == IF w.current_block.current_chunk.no_of_postings >= MaxPostingsPerChunk
              THEN CloseChunk(w) ELSE w
    IN  IF i = Len(postings) THEN [w |-> CloseChunk(wa), done |-> TRUE]
        ELSE LET current_posting == postings[i + 1]
                 encoded_positions == encode_positions(current_posting.positions)
                 size_of_posting ==
                     Len(encode_doc_id(wa.current_block.current_chunk,
                                       current_posting.doc_id))
                         + Len(encoded_positions)
                 wb == IF space_used(wa.current_block) + size_of_posting
                              > MaxBlockBytes(wa)
                       THEN StartNextBlock(wa, term) ELSE wa
                 encoded_doc_id ==
                     encode_doc_id(wb.current_block.current_chunk,
                                   current_posting.doc_id)
             IN  [w |-> [wb EXCEPT !.current_block.current_chunk =
                            ChunkAddPosting(@, current_posting.doc_id,
                                            encoded_doc_id, encoded_positions)],
                  done |-> FALSE]

\* MergedIndexBlockWriter::add_term; the loop returns in the iteration
\* that finds i = postings.len()
add_term(w, term, postings) ==
    LET w1 == IF w.current_block.current_block_size + 6 + 8 > MaxBlockBytes(w)
              THEN [write_block_to_index_file(w) EXCEPT
                        !.current_block = BlockReset(@)]
              ELSE w
        w2 == InitTermMetadata(w1, term, Len(postings))
        w3 == [w2 EXCEPT !.current_block =
                  [BlockAddTerm(@, term) EXCEPT !.current_chunk = NewChunk(term)]]
    IN  Loop(LAMBDA st, i : add_term_body(term, postings, st, i),
             [w |-> w3, done |-> FALSE], 0, Len(postings) + 1).w

\* MergedIndexBlockWriter::finish
finish(w) == write_block_to_index_file(w)

(***************************************************************************)
(* Block (reading side) and Chunk decoding: indexer/block.rs, chunk.rs     *)
(***************************************************************************)
\* byte i0 (0-based) of a BLOCK_SIZE array held as its non-zero-padded front
ByteAt(bb, i0) == IF i0 < Len(bb) THEN bb[i0 + 1] ELSE 0

\* array[from..to], 0-based, `to` exclusive
BytesAt(bb, from, to) == [k \in 1 .. (to - from) |-> ByteAt(bb, from + k - 1)]

\* Chunk::decode on a Chunk that may hold an earlier decoding: with
\* max_doc_id = 0 it returns before doc_ids and positions are assigned
ChunkDecode(c, chunk_bytes) ==
    IF Len(chunk_bytes) < 4 THEN [panic |-> TRUE, chunk |-> c]
    ELSE LET max_doc_id == u32_from_le_bytes(SubSeq(chunk_bytes, 1, 4))
             c1 == [c EXCEPT !.size_of_chunk = 4 + Len(chunk_bytes),
                             !.max_doc_id = max_doc_id]
             index == FirstZero(chunk_bytes, 4)
         IN  IF max_doc_id = 0 THEN [panic |-> FALSE, chunk |-> c1]
             ELSE IF index + 1 > Len(chunk_bytes) THEN [panic |-> TRUE, chunk |-> c1]
             ELSE [panic |-> FALSE,
                   chunk |-> [c1 EXCEPT !.doc_ids = Slice(chunk_bytes, 4, index),
                                        !.positions = SliceFrom(chunk_bytes, index + 1)]]

\* one iteration of the outer while loop of Chunk::get_posting_list;
\* running off the end of self.positions is an index panic
get_posting_list_body(positions, st) ==
    LET j == FirstZero(positions, st.i)
    IN  IF j >= Len(positions) THEN [st EXCEPT !.panic = TRUE, !.done = TRUE]
        ELSE [st EXCEPT !.posting_list = Slice(positions, st.i, j),
                        !.i = j + 1]

\* Chunk::get_posting_list: index + 1 iterations, then the slice is decoded
get_posting_list(chunk, index) ==
    LET st == Loop(LAMBDA s, k : get_posting_list_body(chunk.positions, s),
                   [i |-> 0, posting_list |-> <<>>, panic |-> FALSE, done |-> FALSE],
                   0, index + 1)
    IN  IF st.panic THEN [panic |-> TRUE, positions |-> <<>>]
        ELSE [panic |-> FALSE, positions |-> vb_decode_positions(st.posting_list)]

\* Block::init: the block's bytes are read from the file and its header parsed
BlockInit(file, block_id) ==
    IF block_id >= Len(file) THEN [status |-> "io_error"]
    ELSE LET bb == file[block_id + 1].block_bytes
             n == u32_from_le_bytes(BytesAt(bb, 0, 4))
         IN  IF n > BLOCK_SIZE \/ 4 + 6 * n > BLOCK_SIZE THEN [status |-> "panic"]
             ELSE [status |-> "ok", block_bytes |-> bb, no_of_terms |-> n,
                   terms |-> [i \in 1 .. n |->
                       u32_from_le_bytes(BytesAt(bb, 4 * i, 4 * i + 4))],
                   term_offsets |-> [i \in 1 .. n |->
                       u16_from_le_bytes(BytesAt(bb, 4 + 4 * n + 2 * (i - 1),
                                                 4 + 4 * n + 2 * i))]]

\* Block::check_if_term_exists (a binary search over ascending term ids)
check_if_term_exists(terms, term_id) ==
    IF \E i \in 1 .. Len(terms) : terms[i] = term_id
    THEN (CHOOSE i \in 1 .. Len(terms) : terms[i] = term_id) - 1
    ELSE -1

RECURSIVE decode_chunks_loop(_, _, _, _, _, _)
\* the while loop of Block::decode_chunks_for_term over
\* block_bytes[start..end]; a slice that leaves the range is a panic
decode_chunks_loop(bb, start, end, chunk_offset, current_chunk, chunk_vec) ==
    IF chunk_offset >= end - start THEN [panic |-> FALSE, chunks |-> chunk_vec]
    ELSE IF chunk_offset + 4 > end - start THEN [panic |-> TRUE, chunks |-> chunk_vec]
    ELSE LET chunk_size == u32_from_le_bytes(
                 BytesAt(bb, start + chunk_offset, start + chunk_offset + 4))
         IN  IF chunk_size = 0 THEN [panic |-> FALSE, chunks |-> chunk_vec]
             ELSE IF chunk_size < 4 \/ chunk_size > end - start - chunk_offset
             THEN [panic |-> TRUE, chunks |-> chunk_vec]
             ELSE LET d == ChunkDecode(current_chunk,
                               BytesAt(bb, start + chunk_offset + 4,
                                       start + chunk_offset + chunk_size))
                  IN  IF d.panic THEN [panic |-> TRUE, chunks |-> chunk_vec]
                      ELSE decode_chunks_loop(bb, start, end,
                               chunk_offset + chunk_size, d.chunk,
                               Append(chunk_vec, d.chunk))

\* Block::decode_chunks_for_term, term_index as the caller computed it
decode_chunks_for_term(block, term_id, term_index) ==
    IF term_index < 0 \/ term_index >= Len(block.term_offsets)
    THEN [panic |-> TRUE, chunks |-> <<>>]
    ELSE LET term_offset_start == block.term_offsets[term_index + 1]
             term_off_end == IF term_index = Len(block.terms) - 1 THEN BLOCK_SIZE
                             ELSE block.term_offsets[term_index + 2]
         IN  IF term_offset_start > term_off_end
             THEN [panic |-> TRUE, chunks |-> <<>>]
             ELSE decode_chunks_loop(block.block_bytes, term_offset_start,
                      term_off_end, 0, NewChunk(term_id), <<>>)

\* the postings of one decoded chunk: the doc-id stream delta-decoded, the
\* positions of posting k taken with get_posting_list(k)
ChunkPostings(chunk) ==
    LET doc_ids == vb_decode_positions(chunk.doc_ids)
        lists == [k \in 1 .. Len(doc_ids) |-> get_posting_list(chunk, k - 1)]
    IN  IF \E k \in 1 .. Len(doc_ids) : lists[k].panic
        THEN [status |-> "panic", postings |-> <<>>]
        ELSE [status |-> "ok",
              postings |-> [k \in 1 .. Len(doc_ids) |->
                  [doc_id |-> doc_ids[k], positions |-> lists[k].positions]]]

RECURSIVE ChunksPostings(_, _)
ChunksPostings(chunks, i) ==
    IF i > Len(chunks) THEN [status |-> "ok", postings |-> <<>>]
    ELSE LET head == ChunkPostings(chunks[i])
             rest == ChunksPostings(chunks, i + 1)
         IN  IF head.status # "ok" THEN head
             ELSE IF rest.status # "ok" THEN rest
             ELSE [status |-> "ok", postings |-> head.postings \o rest.postings]

\* the postings of a term in one block of the index file
BlockPostings(file, block_id, term_id) ==
    LET block == BlockInit(file, block_id)
    IN  IF block.status # "ok" THEN [status |-> block.status, postings |-> <<>>]
        ELSE LET d == decode_chunks_for_term(block, term_id,
                          check_if_term_exists(block.terms, term_id))
             IN  IF d.panic THEN [status |-> "panic", postings |-> <<>>]
                 ELSE ChunksPostings(d.chunks, 1)

RECURSIVE ReadPostings(_, _, _, _)
\* the blocks named in block_ids read in order and their postings concatenated
ReadPostings(file, block_ids, term_id, i) ==
    IF i > Len(block_ids) THEN [status |-> "ok", postings |-> <<>>]
    ELSE LET head == BlockPostings(file, block_ids[i], term_id)
             rest == ReadPostings(file, block_ids, term_id, i + 1)
         IN  IF head.status # "ok" THEN head
             ELSE IF rest.status # "ok" THEN rest
             ELSE [status |-> "ok", postings |-> head.postings \o rest.postings]

(***************************************************************************)
(* Terms: Rust Strings, held as their UTF-8 bytes.                         *)
(***************************************************************************)
\* a < b in the ordering of String: byte-wise lexicographic
StrLess(a, b) ==
    \E k \in 1 .. Min({Len(a), Len(b)}) + 1 :
        /\ \A j \in 1 .. k - 1 : a[j] = b[j]
        /\ IF k <= Len(a) /\ k <= Len(b) THEN a[k] < b[k] ELSE Len(a) < Len(b)

\* the least String of a non-empty finite set (Iterator::min)
MinString(S) == CHOOSE x \in S : \A y \in S \ {x} : StrLess(x, y)

RECURSIVE SortStrings(_)
\* the Strings of a finite set in ascending order (Vec::sort)
SortStrings(S) ==
    IF S = {} THEN <<>>
    ELSE LET m == MinString(S) IN <<m>> \o SortStrings(S \ {m})

\* String::from_utf8 accepts a buffer of ASCII bytes; the terms drawn are
\* ASCII, and a buffer with another byte is taken to be rejected
IsUtf8(bytes) == \A k \in 1 .. Len(bytes) : bytes[k] < 128

\* Option values
None == [some |-> FALSE, v |-> <<>>]

Some(x) == [some |-> TRUE, v |-> x]

(***************************************************************************)
(* Dictionary: dictionary/mod.rs                                           *)
(***************************************************************************)
\* Dictionary::new
NewDictionary == [current_size |-> 0, dictionary |-> <<>>]

\* Dictionary::clear: the map is emptied, current_size is left as it is
dictionary_clear(d) == [d EXCEPT !.dictionary = <<>>]

does_term_already_exist(d, term) == term \in DOMAIN d.dictionary

\* Dictionary::add_term
dictionary_add_term(d, term) ==
    IF does_term_already_exist(d, term) THEN d
    ELSE [current_size |-> d.current_size + 4 + Len(term),
          dictionary |-> [t \in DOMAIN d.dictionary \cup {term} |->
                             IF t = term THEN <<>> ELSE d.dictionary[t]]]

\* Dictionary::append_to_term: nothing happens for a term that is not a key
append_to_term(d, term, posting) ==
    IF term \in DOMAIN d.dictionary
    THEN [current_size |-> d.current_size + 4 + 4 * Len(posting.positions),
          dictionary |-> [d.dictionary EXCEPT ![term] = Append(@, posting)]]
    ELSE d

sort_terms(d) == SortStrings(DOMAIN d.dictionary)

(***************************************************************************)
(* Posting-list codec: indexer/helper.rs                                   *)
(***************************************************************************)
\* one iteration of the for loop of vb_encode_posting_list; doc_id -
\* last_doc_id is a u32 subtraction (the lists drawn are ascending)
vb_encode_posting_list_body(posting_list, st, i) ==
    LET posting == posting_list[i + 1]
        posting_bytes == IF st.last_doc_id = 0 THEN vb_encode(posting.doc_id)
                         ELSE vb_encode(posting.doc_id - st.last_doc_id)
        position_bytes == vb_encode_positions(posting.positions)
        length_bytes == u16_to_le_bytes(Len(position_bytes))
    IN  [st EXCEPT !.out = @ \o posting_bytes \o length_bytes \o position_bytes,
                   !.last_doc_id = posting.doc_id]

vb_encode_posting_list(posting_list) ==
    Loop(LAMBDA st, i : vb_encode_posting_list_body(posting_list, st, i),
         [last_doc_id |-> 0, out |-> <<>>, done |-> FALSE],
         0, Len(posting_list)).out

\* one iteration of the while loop of vb_decode_posting_list
vb_decode_posting_list_body(encoded_bytes, st) ==
    IF st.offset >= Len(encoded_bytes) THEN [st EXCEPT !.done = TRUE]
    ELSE LET d == vb_decode(SliceFrom(encoded_bytes, st.offset))
             offset1 == st.offset + d.bytes_read
             doc_id == IF st.last_doc_id = 0 THEN d.number
                       ELSE AddU32(st.last_doc_id, d.number)
         IN  IF offset1 + 2 > Len(encoded_bytes) THEN [st EXCEPT !.done = TRUE]
             ELSE LET positions_length ==
                          u16_from_le_bytes(Slice(encoded_bytes, offset1, offset1 + 2))
                      offset2 == offset1 + 2
                  IN  IF offset2 + positions_length > Len(encoded_bytes)
                      THEN [st EXCEPT !.done = TRUE]
                      ELSE [st EXCEPT
                               !.offset = offset2 + positions_length,
                               !.last_doc_id = doc_id,
                               !.posting_list = Append(@,
                                   [doc_id |-> doc_id,
                                    positions |-> vb_decode_positions(
                                        Slice(encoded_bytes, offset2,
                                              offset2 + positions_length))])]

\* every iteration consumes three bytes at least
vb_decode_posting_list(encoded_bytes) ==
    Loop(LAMBDA st, k : vb_decode_posting_list_body(encoded_bytes, st),
         [offset |-> 0, last_doc_id |-> 0, posting_list |-> <<>>, done |-> FALSE],
         0, Len(encoded_bytes) + 1).posting_list

(***************************************************************************)
(* Run files: indexer/spimi.rs (writing), index_merge_iterator.rs (reading)*)
(***************************************************************************)
\* Spmi::write_term_to_disk
write_term_to_disk(term, posting_list) ==
    LET encoded_posting_list == vb_encode_posting_list(posting_list)
    IN  u32_to_le_bytes(Len(term)) \o term
            \o u32_to_le_bytes(Len(encoded_posting_list)) \o encoded_posting_list

RECURSIVE write_terms_loop(_, _, _)
\* the for loop of write_dictionary_to_disk over sorted_terms[i..]
write_terms_loop(sorted_terms, dict, i) ==
    IF i > Len(sorted_terms) THEN <<>>
    ELSE (IF sorted_terms[i] \in DOMAIN dict.dictionary
          THEN write_term_to_disk(sorted_terms[i], dict.dictionary[sorted_terms[i]])
          ELSE <<>>)
         \o write_terms_loop(sorted_terms, dict, i + 1)

\* the bytes Spmi::write_dictionary_to_disk writes into the file it creates
write_dictionary_to_disk(sorted_terms, dict) ==
    u32_to_le_bytes(Len(sorted_terms)) \o write_terms_loop(sorted_terms, dict, 1)

\* File::create(path) followed by the writes: the file is created, or
\* truncated when it exists
FileCreate(files, path, bytes) ==
    [p \in DOMAIN files \cup {path} |-> IF p = path THEN bytes ELSE files[p]]

\* the file name single_pass_in_memory_indexing hands to
\* write_dictionary_to_disk, at every flush
RunFileName == [dir |-> "", stem |-> "", ext |-> ""]

\* IndexMergeIterator::new; cursor is the position of the File
NewIterator(file) ==
    [no_of_terms |-> 0, file |-> file, cursor |-> 0, current_term_no |-> 0,
     current_term |-> None, current_postings |-> None, current_offset |-> 0,
     err |-> FALSE]

\* read_exact of n bytes succeeds
CanRead(it, n) == n <= Len(it.file) - it.cursor

\* a cursor that starts over at the first entry once it is exhausted
iterator_exhausted_rewind(it) ==
    [it EXCEPT !.current_term = None, !.current_postings = None,
               !.current_term_no = 0, !.cursor = 4, !.current_offset = 4]

\* the branch of next() taken once every term was read
iterator_exhausted(it) ==
    [it EXCEPT !.current_term = None, !.current_postings = None]

\* IndexMergeIterator::next; err says that it returned Err
iterator_next(it) ==
    IF it.current_term_no >= it.no_of_terms
    THEN iterator_exhausted(it)
    ELSE IF ~CanRead(it, 4) THEN [it EXCEPT !.err = TRUE]
    ELSE
      LET string_length == u32_from_le_bytes(Slice(it.file, it.cursor, it.cursor + 4))
          it1 == [it EXCEPT !.cursor = @ + 4, !.current_offset = @ + 4]
      IN  IF ~CanRead(it1, string_length) THEN [it1 EXCEPT !.err = TRUE]
          ELSE
            LET string_buf == Slice(it1.file, it1.cursor, it1.cursor + string_length)
                it2 == [it1 EXCEPT !.cursor = @ + string_length,
                                   !.current_term = Some(string_buf),
                                   !.current_offset = @ + string_length]
            IN  IF ~IsUtf8(string_buf) THEN [it1 EXCEPT !.err = TRUE]
                ELSE IF ~CanRead(it2, 4) THEN [it2 EXCEPT !.err = TRUE]
                ELSE
                  LET postings_length ==
                          u32_from_le_bytes(Slice(it2.file, it2.cursor, it2.cursor + 4))
                      it3 == [it2 EXCEPT !.cursor = @ + 4, !.current_offset = @ + 4]
                  IN  IF ~CanRead(it3, postings_length) THEN [it3 EXCEPT !.err = TRUE]
                      ELSE
                        LET postings_buf == Slice(it3.file, it3.cursor,
                                                  it3.cursor + postings_length)
                        IN  [it3 EXCEPT
                                !.cursor = @ + postings_length,
                                !.current_postings =
                                    Some(vb_decode_posting_list(postings_buf)),
                                !.current_offset = @ + postings_length,
                                !.current_term_no = @ + 1]

\* IndexMergeIterator::init
iterator_init(it) ==
    LET it0 == [it EXCEPT !.cursor = 0]
    IN  IF ~CanRead(it0, 4) THEN [it0 EXCEPT !.err = TRUE]
        ELSE iterator_next(
                 [it0 EXCEPT !.no_of_terms = u32_from_le_bytes(Slice(it0.file, 0, 4)),
                             !.cursor = 4,
                             !.current_offset = 4])

(***************************************************************************)
(* merge_postings: positional_intersect.rs                                 *)
(***************************************************************************)
RECURSIVE merge_postings_loop(_, _, _, _, _)
\* the while loop of merge_postings and the two extends after it; i and j
\* are 0-based
merge_postings_loop(p1, p2, i, j, merged) ==
    IF i < Len(p1) /\ j < Len(p2)
    THEN IF p1[i + 1].doc_id < p2[j + 1].doc_id
         THEN merge_postings_loop(p1, p2, i + 1, j, Append(merged, p1[i + 1]))
         ELSE merge_postings_loop(p1, p2, i, j + 1, Append(merged, p2[j + 1]))
    ELSE merged \o SliceFrom(p1, i) \o SliceFrom(p2, j)

\* a slip that leaves out the rest of p1 once p2 is exhausted
RECURSIVE merge_postings_loop_no_rest(_, _, _, _, _)
merge_postings_loop_no_rest(p1, p2, i, j, merged) ==
    IF i < Len(p1) /\ j < Len(p2)
    THEN IF p1[i + 1].doc_id < p2[j + 1].doc_id
         THEN merge_postings_loop_no_rest(p1, p2, i + 1, j, Append(merged, p1[i + 1]))
         ELSE merge_postings_loop_no_rest(p1, p2, i, j + 1, Append(merged, p2[j + 1]))
    ELSE merged \o SliceFrom(p2, j)

merge_postings_no_rest(p1, p2) == merge_postings_loop_no_rest(p1, p2, 0, 0, <<>>)

merge_postings(p1, p2) == merge_postings_loop(p1, p2, 0, 0, <<>>)

(***************************************************************************)
(* Term directory: in_memory_dict/map_in_memory_dict.rs,                   *)
(* indexer/index_metadata.rs                                               *)
(***************************************************************************)
\* MapInMemoryDictPointer::new
NewPointer(term_id) == [term_id |-> term_id, term_frequency |-> 0, block_ids |-> <<>>]

\* InMemoryIndexMetatdata::new; the BK-tree of the bk_tree crate is held as
\* the set of words added to it
NewMetadata == [bk_tree |-> {}, term_map |-> <<>>]

\* a slip that hands out 0-based ids
get_term_id_zero_based(md, term) ==
    IF term \in DOMAIN md.term_map THEN md.term_map[term].term_id - 1 ELSE 0

\* MapInMemoryDict::get_term_id
get_term_id(md, term) ==
    IF term \in DOMAIN md.term_map THEN md.term_map[term].term_id ELSE 0

\* MapInMemoryDict::get_term_metadata: term_map.get(term).unwrap(), which
\* panics on None
get_term_metadata(md, term) ==
    IF term \in DOMAIN md.term_map
    THEN [outcome |-> "returned", pointer |-> md.term_map[term]]
    ELSE [outcome |-> "panicked", pointer |-> NewPointer(0)]

\* MapInMemoryDict::set_term_id: inserts a fresh pointer under the term
set_term_id(md, term, term_id) ==
    [md EXCEPT !.term_map = [t \in DOMAIN @ \cup {term} |->
                                IF t = term THEN NewPointer(term_id) ELSE @[t]]]

set_term_frequency(md, term, term_frequency) ==
    IF term \in DOMAIN md.term_map
    THEN [md EXCEPT !.term_map[term].term_frequency = term_frequency]
    ELSE md

set_block_ids(md, term, block_ids) ==
    IF term \in DOMAIN md.term_map
    THEN [md EXCEPT !.term_map[term].block_ids = block_ids]
    ELSE md

add_term_to_bk_tree(md, term) == [md EXCEPT !.bk_tree = @ \cup {term}]

(***************************************************************************)
(* Spmi::merge_index_files: indexer/spimi.rs                               *)
(***************************************************************************)
\* the paths scan_and_create_iterators opens: the .idx files of directory
IdxFiles(files, directory) ==
    {p \in DOMAIN files : p.dir = directory /\ p.ext = "idx"}

\* the orders in which read_dir can list the files of S
ScanOrders(S) ==
    {order \in [1 .. Cardinality(S) -> S] :
        \A a, b \in 1 .. Cardinality(S) : a # b => order[a] # order[b]}

\* scan_and_create_iterators over the files listed in `order`
scan_and_create_iterators(files, order) ==
    [k \in 1 .. Len(order) |-> iterator_init(NewIterator(files[order[k]]))]

RECURSIVE advance_iterators(_, _, _, _)
\* the for loop over merge_iterators of one round: the postings of every
\* iterator that stands on `term` are collected and the iterator advanced;
\* the loop is left on the first next() that fails
advance_iterators(iterators, term, k, posting_lists) ==
    IF k > Len(iterators)
    THEN [iterators |-> iterators, posting_lists |-> posting_lists, err |-> FALSE]
    ELSE LET it == iterators[k]
         IN  IF it.current_term.some /\ it.current_term.v = term
             THEN LET lists == IF it.current_postings.some
                               THEN Append(posting_lists, it.current_postings.v)
                               ELSE posting_lists
                      advanced == iterator_next(it)
                      its == [iterators EXCEPT ![k] = advanced]
                  IN  IF advanced.err
                      THEN [iterators |-> its, posting_lists |-> lists, err |-> TRUE]
                      ELSE advance_iterators(its, term, k + 1, lists)
             ELSE advance_iterators(iterators, term, k + 1, posting_lists)

RECURSIVE merge_posting_lists(_, _, _)
\* final_merged after the for loop over posting_lists[k..]
merge_posting_lists(posting_lists, k, final_merged) ==
    IF k > Len(posting_lists) THEN final_merged
    ELSE merge_posting_lists(posting_lists, k + 1,
                             merge_postings(final_merged, posting_lists[k]))

\* the rest of a round of merge_index_files once the iterators standing
\* on `term` have been advanced (adv)
merge_round_emit(st, term, adv) ==
    IF adv.err
    THEN [st EXCEPT !.iterators = adv.iterators,
                    !.no_of_terms = @ + 1,
                    !.err = TRUE, !.done = TRUE]
    ELSE Apply(LAMBDA final_merged :
                 [st EXCEPT
                    !.iterators = adv.iterators,
                    !.no_of_terms = @ + 1,
                    !.index_merge_writer =
                        add_term(@, st.no_of_terms + 1, final_merged),
                    !.emitted = Append(@, final_merged),
                    !.emitted_terms = Append(@, term),
                    !.metadata = add_term_to_bk_tree(
                                     set_term_id(@, term, st.no_of_terms + 1), term)],
               merge_posting_lists(adv.posting_lists, 1, <<>>))

\* one round of the loop of merge_index_files: the smallest current term
\* is taken, or the loop left when no iterator has one
merge_round(st) ==
    LET current_terms == {st.iterators[k].current_term.v :
                             k \in {n \in 1 .. Len(st.iterators) :
                                       st.iterators[n].current_term.some}}
    IN  IF current_terms = {} THEN [st EXCEPT !.done = TRUE]
        ELSE Apply(LAMBDA adv : merge_round_emit(st, MinString(current_terms), adv),
                   advance_iterators(st.iterators, MinString(current_terms), 1, <<>>))

RECURSIVE merge_rounds(_, _)
\* the loop of merge_index_files, left after `rounds` rounds at the latest
merge_rounds(st, rounds) ==
    IF st.done \/ rounds = 0 THEN st
    ELSE Apply(LAMBDA next : merge_rounds(next, rounds - 1), merge_round(st))

RECURSIVE SumSeq(_, _)
\* s[i] + s[i+1] + ..
SumSeq(s, i) == IF i > Len(s) THEN 0 ELSE s[i] + SumSeq(s, i + 1)

\* the second loop of merge_index_files: block ids and frequency of every
\* term are copied from the writer's metadata
copy_term_metadata(md, index_merge_writer) ==
    [md EXCEPT !.term_map =
        [term \in DOMAIN @ |->
            LET term_id == get_term_id(md, term)
            IN  IF term_id # 0 /\ term_id \in DOMAIN index_merge_writer.term_metadata
                THEN [@[term] EXCEPT
                        !.block_ids =
                            index_merge_writer.term_metadata[term_id].block_ids,
                        !.term_frequency =
                            index_merge_writer.term_metadata[term_id].term_frequency]
                ELSE @[term]]]

\* merge_index_files from the iterators on: the loop, then the second loop.
\* Every round advances an iterator, so the rounds are at most the terms
\* the files announce, plus the one that finds every iterator exhausted;
\* `done` is FALSE if they did not suffice.
merge_from_iterators(merge_iterators, block_size) ==
    LET init_err == \E k \in 1 .. Len(merge_iterators) : merge_iterators[k].err
        start == [iterators |-> merge_iterators, no_of_terms |-> 0,
                  index_merge_writer |-> NewWriter(block_size),
                  emitted |-> <<>>, emitted_terms |-> <<>>,
                  metadata |-> NewMetadata, err |-> init_err, done |-> init_err]
        announced == [k \in 1 .. Len(merge_iterators) |->
                         Min({merge_iterators[k].no_of_terms,
                              Len(merge_iterators[k].file)})]
    IN  IF merge_iterators = <<>> THEN [start EXCEPT !.done = TRUE]
        ELSE Apply(LAMBDA end :
                     [end EXCEPT !.metadata =
                         IF end.err \/ ~end.done THEN @
                         ELSE copy_term_metadata(@, end.index_merge_writer)],
                   merge_rounds(start, SumSeq(announced, 1) + 1))

\* merge_index_files(block_size) over the .idx files of index_directory as
\* read_dir lists them in `order`
merge_index_files(files, order, block_size) ==
    Apply(LAMBDA merge_iterators : merge_from_iterators(merge_iterators, block_size),
          scan_and_create_iterators(files, order))

(***************************************************************************)
(* Conjunctive match: query_processor/query_processor.rs                   *)
(***************************************************************************)
SeqToSet(seq) == {seq[k] : k \in 1 .. Len(seq)}

\* Chunk::get_doc_ids: the doc-ids of the chunk's doc-id stream
get_doc_ids(chunk) == vb_decode_positions(chunk.doc_ids)

\* one iteration of the while loop of Block::get_chunk_for_term: i moves
\* on only when chunks[i].max_doc_id is below the id; the loop is left
\* when i reaches chunks.len()
get_chunk_for_term_body(term_id, chunks, st) ==
    IF st.i >= Len(chunks) THEN [st EXCEPT !.done = TRUE]
    ELSE IF chunks[st.i + 1].max_doc_id < term_id THEN [st EXCEPT !.i = @ + 1]
    ELSE st

\* Block::get_chunk_for_term. The loop's state is i alone, so an iteration
\* that leaves i as it is repeats for ever ("loops"): this is the case if
\* the loop is not left after chunks.len() + 1 iterations. Behind the loop
\* &chunks[i] is an index panic for i = chunks.len().
get_chunk_for_term(term_id, chunks) ==
    LET st == Loop(LAMBDA s, k : get_chunk_for_term_body(term_id, chunks, s),
                   [i |-> 0, done |-> FALSE], 0, Len(chunks) + 1)
    IN  IF ~st.done THEN [outcome |-> "loops", chunk |-> None]
        ELSE IF st.i >= Len(chunks) THEN [outcome |-> "panic", chunk |-> None]
        ELSE [outcome |-> "returned", chunk |-> Some(chunks[st.i + 1])]

\* Block::get_chunk_for_doc: the first chunk whose max_doc_id is not below
\* the doc-id, if there is one
get_chunk_for_doc(doc_id, chunks) ==
    LET at == {k \in 1 .. Len(chunks) : chunks[k].max_doc_id >= doc_id}
    IN  IF at = {} THEN None ELSE Some(chunks[Min(at)])

\* one iteration of the for loop of get_doc_ids_for_term; init().unwrap()
\* and the slices of decode_chunks_for_term may panic
get_doc_ids_for_term_body(file, block_ids, term_id, st, i) ==
    LET block == BlockInit(file, block_ids[i + 1])
    IN  IF block.status # "ok" THEN [st EXCEPT !.panic = TRUE, !.done = TRUE]
        ELSE LET term_index == check_if_term_exists(block.terms, term_id)
                 d == decode_chunks_for_term(block, term_id, term_index)
             IN  IF d.panic THEN [st EXCEPT !.panic = TRUE, !.done = TRUE]
                 ELSE [st EXCEPT !.doc_ids = @ \cup
                          UNION {SeqToSet(get_doc_ids(d.chunks[k])) :
                                    k \in 1 .. Len(d.chunks)}]

get_doc_ids_for_term(file, block_ids, term_id) ==
    Loop(LAMBDA st, i : get_doc_ids_for_term_body(file, block_ids, term_id, st, i),
         [doc_ids |-> {}, panic |-> FALSE, done |-> FALSE], 0, Len(block_ids))

\* one iteration of the for loop of intersect: doc_ids.retain keeps the
\* doc-ids found in a chunk of this block
intersect_body(file, block_ids, term_id, st, i) ==
    LET block == BlockInit(file, block_ids[i + 1])
    IN  IF block.status # "ok" THEN [st EXCEPT !.panic = TRUE, !.done = TRUE]
        ELSE LET term_index == check_if_term_exists(block.terms, term_id)
                 d == decode_chunks_for_term(block, term_id, term_index)
             IN  IF term_index = -1 THEN st
                 ELSE IF d.panic THEN [st EXCEPT !.panic = TRUE, !.done = TRUE]
                 ELSE [st EXCEPT !.doc_ids =
                          {doc_id \in @ :
                              LET chunk == get_chunk_for_doc(doc_id, d.chunks)
                              IN  /\ chunk.some
                                  /\ doc_id \in SeqToSet(get_doc_ids(chunk.v))}]

intersect(file, block_ids, term_id, st) ==
    Loop(LAMBDA s, i : intersect_body(file, block_ids, term_id, s, i),
         st, 0, Len(block_ids))

\* the first for loop of process_query: the index of the first term with
\* the least term_frequency (min_doc_frequency starts at u32::MAX, above
\* every frequency)
select_seed_body(query_metadata, st, i) ==
    IF query_metadata[i + 1].term_frequency < st.min_doc_frequency
    THEN [st EXCEPT !.min_frequency_term_index = i,
                    !.min_doc_frequency = query_metadata[i + 1].term_frequency]
    ELSE st

\* one iteration of the second for loop of process_query
process_query_body(file, query_metadata, seed, st, i) ==
    IF i = seed THEN st
    ELSE intersect(file, query_metadata[i + 1].block_ids,
                   query_metadata[i + 1].term_id, st)

\* QueryProcessor::process_query, with the doc_ids it ends with;
\* query_metadata[min_frequency_term_index] out of range is a panic
process_query(file, query_terms, query_metadata) ==
    LET seed == Loop(LAMBDA st, i : select_seed_body(query_metadata, st, i),
                     [min_frequency_term_index |-> Len(query_terms),
                      min_doc_frequency |-> HugeU32, done |-> FALSE],
                     0, Len(query_metadata)).min_frequency_term_index
    IN  IF seed >= Len(query_metadata) THEN [panic |-> TRUE, doc_ids |-> {}]
        ELSE LET st == Loop(LAMBDA s, i : process_query_body(file, query_metadata,
                                                             seed, s, i),
                            get_doc_ids_for_term(file,
                                query_metadata[seed + 1].block_ids,
                                query_metadata[seed + 1].term_id),
                            0, Len(query_metadata))
             IN  [panic |-> st.panic, doc_ids |-> st.doc_ids]

(***************************************************************************)
(* Blocked term dictionary: in_memory_dict.rs.  term_string holds, per     *)
(* term, a length character and the term; term_array one pointer per term, *)
(* with the offset into term_string for the first term of a block.         *)
(***************************************************************************)
\* InMemoryDict::new
NewInMemoryDict(block_size) ==
    [block_size |-> block_size, term_string |-> <<>>, term_array |-> <<>>]

\* String::push of the char with code c: its UTF-8 bytes
push_char(c) == IF c < 128 THEN <<c>> ELSE <<192 + (c \div 64), 128 + (c % 64)>>

\* InMemoryDict::add_term
in_memory_dict_add_term(dict, term, posting_offset, term_frequency) ==
    LET term_string == dict.term_string \o push_char(Len(term) % 256) \o term
        is_new_block_beginning ==
            (Len(dict.term_array) % 256) % dict.block_size = 0
    IN  [dict EXCEPT
            !.term_string = term_string,
            !.term_array = Append(@,
                [term_offset |-> IF is_new_block_beginning
                                 THEN Some(Len(term_string) - Len(term) - 1)
                                 ELSE None,
                 term_frequency |-> term_frequency,
                 posting_offset |-> posting_offset])]

\* one iteration of the for loop of find_term_offset_within_block
find_term_offset_within_block_body(dict, term, st, i) ==
    LET len == Len(dict.term_string)
        term_length == dict.term_string[st.term_offset + 1]
        string_start == st.term_offset + 1
        string_end == string_start + term_length
    IN  IF st.term_offset >= len
        THEN [st EXCEPT !.posting_offset = dict.block_size, !.done = TRUE]
        ELSE IF string_end > len
        THEN [st EXCEPT !.posting_offset = dict.block_size, !.done = TRUE]
        ELSE IF term = SubSeq(dict.term_string, string_start + 1, string_end)
        THEN [st EXCEPT !.posting_offset = i, !.done = TRUE]
        ELSE [st EXCEPT !.term_offset = @ + 1 + term_length]

\* InMemoryDict::find_term_offset_within_block
find_term_offset_within_block(dict, term, start_term_offset) ==
    Loop(LAMBDA st, i : find_term_offset_within_block_body(dict, term, st, i),
         [posting_offset |-> dict.block_size, term_offset |-> start_term_offset,
          done |-> FALSE],
         0, dict.block_size).posting_offset

\* InMemoryDict::get_starting_term_from_block
get_starting_term_from_block(dict, term_offset) ==
    IF term_offset >= Len(dict.term_string) THEN <<>>
    ELSE LET term_length == dict.term_string[term_offset + 1]
             string_start == term_offset + 1
             string_end == string_start + term_length
         IN  IF string_end > Len(dict.term_string) THEN <<>>
             ELSE SubSeq(dict.term_string, string_start + 1, string_end)

\* InMemoryDict::find_block_start; indices are 0-based
find_block_start(dict, index) ==
    LET starts == {i \in 0 .. index : dict.term_array[i + 1].term_offset.some}
    IN  IF index >= Len(dict.term_array) \/ starts = {} THEN -1
        ELSE CHOOSE i \in starts : \A j \in starts : j <= i

\* InMemoryDict::get_next_block_start
get_next_block_start(dict, current_block_start) ==
    LET starts == {i \in current_block_start + dict.block_size
                            .. Len(dict.term_array) - 1 :
                      dict.term_array[i + 1].term_offset.some}
    IN  IF starts = {} THEN -1 ELSE Min(starts)

\* one iteration of the while loop of find; value is what find returns
find_body(dict, term, st) ==
    LET mid == st.l + (st.r - st.l) \div 2
        block_start == find_block_start(dict, mid)
        pointer == dict.term_array[block_start + 1]
        term_found == get_starting_term_from_block(dict, pointer.term_offset.v)
        block_offset == find_term_offset_within_block(dict, term, pointer.term_offset.v)
        block_pointer_index == block_offset + block_start
        next == get_next_block_start(dict, block_start)
    IN  IF st.l > st.r THEN [st EXCEPT !.value = -1, !.done = TRUE]
        ELSE IF block_start = -1 THEN [st EXCEPT !.value = -1, !.done = TRUE]
        ELSE IF term_found = <<>> THEN [st EXCEPT !.value = -1, !.done = TRUE]
        ELSE IF term_found = term
        THEN [st EXCEPT !.value = pointer.posting_offset, !.done = TRUE]
        ELSE IF StrLess(term, term_found) THEN [st EXCEPT !.r = block_start - 1]
        ELSE IF block_offset < dict.block_size
                    /\ block_pointer_index < Len(dict.term_array)
        THEN [st EXCEPT !.value = dict.term_array[block_pointer_index + 1].posting_offset,
                        !.done = TRUE]
        ELSE IF next = -1 THEN [st EXCEPT !.value = -1, !.done = TRUE]
        ELSE [st EXCEPT !.l = next]

\* InMemoryDict::find, its while loop run for at most max_rounds rounds:
\* terminated says that it returned within them, value is what it returned
\* (posting offsets below 2^31 are unchanged by `as i32`)
find(dict, term, max_rounds) ==
    IF dict.term_array = <<>> THEN [terminated |-> TRUE, value |-> -1]
    ELSE LET st == Loop(LAMBDA s, i : find_body(dict, term, s),
                        [l |-> 0, r |-> Len(dict.term_array) - 1, value |-> -1,
                         done |-> FALSE],
                        0, max_rounds)
         IN  [terminated |-> st.done, value |-> st.value]

(***************************************************************************)
(* Phrase filter: positional_intersect.rs.  term_postings maps a word to   *)
(* its posting list (the u16 of the pair is not read).                     *)
(***************************************************************************)
\* the inner for loop of has_consecutive_positions: every later posting
\* holds start_pos + term_idx (a binary search in ascending positions)
phrase_found(postings, start_pos) ==
    \A term_idx \in 1 .. Len(postings) - 1 :
        (start_pos + term_idx) \in SeqToSet(postings[term_idx + 1].positions)

has_consecutive_positions(postings) ==
    \E k \in 1 .. Len(postings[1].positions) :
        phrase_found(postings, postings[1].positions[k])

\* term_postings_list.binary_search_by_key(&doc_id, |p| p.doc_id)
binary_search_by_doc_id(term_postings_list, doc_id) ==
    LET at == {k \in 1 .. Len(term_postings_list) :
                  term_postings_list[k].doc_id = doc_id}
    IN  IF at = {} THEN None ELSE Some(term_postings_list[Min(at)])

RECURSIVE sort_by_key(_)
\* doc_postings.sort_by_key(|&(offset, _)| offset): a stable sort by the
\* first component of the pairs, which is the word
sort_by_key(doc_postings) ==
    IF doc_postings = <<>> THEN <<>>
    ELSE LET least == {k \in 1 .. Len(doc_postings) :
                          \A j \in 1 .. Len(doc_postings) :
                              ~StrLess(doc_postings[j][1], doc_postings[k][1])}
             first == Min(least)
         IN  <<doc_postings[first]>>
                 \o sort_by_key(SubSeq(doc_postings, 1, first - 1)
                                    \o SubSeq(doc_postings, first + 1, Len(doc_postings)))

\* the for loop over words of find_documents_optimized: the postings of
\* doc_id, one per word, until a word has none
collect_doc_postings_body(words, term_postings, doc_id, st, i) ==
    LET word == words[i + 1]
        found == IF word \in DOMAIN term_postings
                 THEN binary_search_by_doc_id(term_postings[word], doc_id)
                 ELSE None
    IN  IF found.some
        THEN [st EXCEPT !.doc_postings = Append(@, <<word, found.v>>)]
        ELSE [st EXCEPT !.all_found = FALSE, !.done = TRUE]

\* one iteration of the for loop over shortest_postings
find_documents_body(words, term_postings, phrase_matching, shortest_postings, st, i) ==
    LET doc_id == shortest_postings[i + 1].doc_id
        c == Loop(LAMBDA s, k : collect_doc_postings_body(words, term_postings,
                                                          doc_id, s, k),
                  [doc_postings |-> <<>>, all_found |-> TRUE, done |-> FALSE],
                  0, Len(words))
        sorted == sort_by_key(c.doc_postings)
        postings_only == [k \in 1 .. Len(sorted) |-> sorted[k][2]]
    IN  IF c.all_found /\ has_consecutive_positions(postings_only) /\ phrase_matching
        THEN [st EXCEPT !.matching_docs = Append(@, doc_id)]
        ELSE st

\* words.iter().min_by_key(..): the first word with the shortest posting
\* list; a word without postings counts as usize::MAX, above every length
shortest_word_of(words, term_postings) ==
    LET key(k) == IF words[k] \in DOMAIN term_postings
                  THEN Len(term_postings[words[k]]) ELSE HugeU32
    IN  words[Min({k \in 1 .. Len(words) : \A j \in 1 .. Len(words) : key(k) <= key(j)})]

find_documents_optimized(words, term_postings, phrase_matching) ==
    IF words = <<>> \/ DOMAIN term_postings = {} THEN <<>>
    ELSE LET shortest_word == shortest_word_of(words, term_postings)
         IN  IF shortest_word \notin DOMAIN term_postings THEN <<>>
             ELSE Loop(LAMBDA st, i :
                           find_documents_body(words, term_postings, phrase_matching,
                                               term_postings[shortest_word], st, i),
                       [matching_docs |-> <<>>, done |-> FALSE],
                       0, Len(term_postings[shortest_word])).matching_docs

(***************************************************************************)
(* Query tokenizer: query_parser/tokenizer.rs.  Strings are sequences of   *)
(* ASCII codes.                                                            *)
(***************************************************************************)
\* char::is_whitespace
is_whitespace(c) == c \in {9, 10, 11, 12, 13, 32}

\* char::is_alphanumeric
is_alphanumeric(c) == c \in (48 .. 57) \cup (65 .. 90) \cup (97 .. 122)

\* str::to_lowercase
to_lowercase(word) ==
    [k \in 1 .. Len(word) |-> IF word[k] \in 65 .. 90 THEN word[k] + 32 ELSE word[k]]

RECURSIVE skip_while_not_alphanumeric(_)
skip_while_not_alphanumeric(chars) ==
    IF chars = <<>> \/ is_alphanumeric(Head(chars)) THEN chars
    ELSE skip_while_not_alphanumeric(Tail(chars))

\* chars().rev().collect()
Reverse(chars) == [k \in 1 .. Len(chars) |-> chars[Len(chars) + 1 - k]]

clean_word(word) ==
    Reverse(skip_while_not_alphanumeric(
        Reverse(skip_while_not_alphanumeric(to_lowercase(word)))))

\* str::trim
trim(sentences) ==
    LET kept == {k \in 1 .. Len(sentences) : ~is_whitespace(sentences[k])}
    IN  IF kept = {} THEN <<>>
        ELSE SubSeq(sentences, Min(kept), CHOOSE k \in kept : \A j \in kept : j <= k)

RECURSIVE split_whitespace(_, _, _)
\* str::split_whitespace: the maximal runs without whitespace of
\* sentences[i..], word being the run read so far
split_whitespace(sentences, i, word) ==
    IF i > Len(sentences) THEN (IF word = <<>> THEN <<>> ELSE <<word>>)
    ELSE IF is_whitespace(sentences[i])
    THEN (IF word = <<>> THEN <<>> ELSE <<word>>) \o split_whitespace(sentences, i + 1, <<>>)
    ELSE split_whitespace(sentences, i + 1, Append(word, sentences[i]))

\* the lemmas.txt read by SearchTokenizer::new: "bs" has the lemma "b"
Lemmas == (<<98, 115>> :> <<98>>)

\* Lemmatizer::lemmatize
lemmatize(word) == IF word \in DOMAIN Lemmas THEN Some(Lemmas[word]) ELSE None

\* one iteration of the for loop of tokenize_query
tokenize_query_body(words, st, i) ==
    LET cleaned_word == clean_word(words[i + 1])
    IN  IF cleaned_word = <<>> THEN [st EXCEPT !.position = @ + 1]
        ELSE LET lemma == lemmatize(cleaned_word)
                 current_lemma == IF lemma.some THEN lemma.v ELSE cleaned_word
             IN  [st EXCEPT
                     !.unigram = Append(@, [position |-> st.position,
                                            word |-> current_lemma]),
                     !.bigram = IF st.prev_lemma.some
                                THEN Append(@, [position |-> st.position - 1,
                                                word |-> st.prev_lemma.v \o <<32>>
                                                             \o current_lemma])
                                ELSE @,
                     !.prev_lemma = Some(current_lemma),
                     !.position = @ + 1]

\* SearchTokenizer::tokenize_query; err says that it returned
\* Err(TokenizationError::EmptyInput)
tokenize_query(sentences) ==
    IF trim(sentences) = <<>>
    THEN [err |-> TRUE, unigram |-> <<>>, bigram |-> <<>>]
    ELSE LET words == split_whitespace(sentences, 1, <<>>)
             st == Loop(LAMBDA st, i : tokenize_query_body(words, st, i),
                        [unigram |-> <<>>, bigram |-> <<>>, position |-> 0,
                         prev_lemma |-> None, done |-> FALSE],
                        0, Len(words))
         IN  [err |-> FALSE, unigram |-> st.unigram, bigram |-> st.bigram]

\* SearchEngine::handle_query of search_engine/mod.rs: the tokens are
\* unwrapped and the function returns Ok(())
handle_query(query) ==
    LET token_query_result == tokenize_query(query)
    IN  IF token_query_result.err
        THEN [result |-> "Err(Unsupported)", unigram |-> <<>>, bigram |-> <<>>]
        ELSE [result |-> "Ok", unigram |-> token_query_result.unigram,
              bigram |-> token_query_result.bigram]

(***************************************************************************)
(* Idle values of the writer harness.                                      *)
(***************************************************************************)
NoRead == [status |-> "none", postings |-> <<>>]

WriterIdle ==
    /\ writer = NewWriter(0)
    /\ added = <<>>
    /\ finished = FALSE
    /\ read_term = 0
    /\ read_result = NoRead

(***************************************************************************)
(* Idle values of the ingest and merge harnesses.                          *)
(***************************************************************************)
IngestIdle ==
    /\ channel = <<>>
    /\ sender_open = FALSE
    /\ sent = <<>>
    /\ received = <<>>
    /\ dictionary = NewDictionary
    /\ max_size = 0
    /\ spimi_state = "off"

MergeIdle ==
    /\ runs = <<>>
    /\ metadata = NewMetadata
    /\ merged_terms = <<>>
    /\ merge_state = "off"
    /\ lookup_term = None
    /\ lookup_id = 0

DiskIdle == fs = <<>>

PostingsIdle ==
    /\ pl_stage = "off"
    /\ pl_in = <<>>
    /\ pl_buf = <<>>
    /\ pl_res = <<>>

RunFileIdle ==
    /\ rf_stage = "off"
    /\ rf_dict = NewDictionary
    /\ rf_file = <<>>
    /\ rf_it = NewIterator(<<>>)
    /\ rf_seen = <<>>
    /\ rf_returns = <<>>

\* no call of get_term_metadata yet
NoLookup == [outcome |-> "none", pointer |-> NewPointer(0)]

DirectoryIdle ==
    /\ md_term = None
    /\ md_result = NoLookup

\* handle_query not called yet
NotHandled == [result |-> "none", unigram |-> <<>>, bigram |-> <<>>]

QueryIdle ==
    /\ q_stage = "off"
    /\ q_query = <<>>
    /\ q_result = NotHandled

\* process_query not called yet
NoAnswer == [panic |-> FALSE, doc_ids |-> {}]

ProcessorIdle ==
    /\ qp_stage = "off"
    /\ qp_lists = <<>>
    /\ qp_index = NewWriter(0)
    /\ qp_query = <<>>
    /\ qp_result = NoAnswer

PhraseIdle ==
    /\ ph_stage = "off"
    /\ ph_docs = <<>>
    /\ ph_words = <<>>
    /\ ph_phrase = FALSE
    /\ ph_result = <<>>

RankingIdle ==
    /\ rk_in = <<>>
    /\ rk_workers = <<>>
    /\ rk_chan = <<>>
    /\ rk_co = <<>>

IndexIdle ==
    /\ ix_pc = "off"
    /\ ix_result = "none"

DictIdle ==
    /\ dc_dict = <<>>
    /\ dc_added = <<>>
    /\ dc_term = <<>>
    /\ dc_result = 0

PostingsMergeIdle ==
    /\ mp_stage = "off"
    /\ mp_p1 = <<>>
    /\ mp_p2 = <<>>
    /\ mp_result = <<>>

ChunkLookupIdle ==
    /\ gc_stage = "off"
    /\ gc_id = 0
    /\ gc_chunks = <<>>
    /\ gc_result = <<>>

MoreIdle == DictIdle /\ PostingsMergeIdle /\ ChunkLookupIdle

LateIdle == RankingIdle /\ IndexIdle /\ MoreIdle

AuxIdle ==
    /\ LateIdle
    /\ PostingsIdle
    /\ RunFileIdle
    /\ DirectoryIdle
    /\ QueryIdle
    /\ ProcessorIdle
    /\ PhraseIdle

(***************************************************************************)
(* Codec harness: the inputs are drawn at Init, the actions apply the      *)
(* functions.                                                              *)
(***************************************************************************)
\* the u32 inputs: a dense low range and the digit-count boundaries
U32Samples ==
    (0 .. MaxSmallNum) \cup
    {16383, 16384, 16385, 16511, 16512, 2097151, 2097152, 2097153,
     268435455, 268435456, 2147483647}

\* what may follow an encoding in the buffer
TailSamples == {<<>>, <<0>>, <<1, 128>>, <<255>>, <<127, 127>>}

PositionPool == {0, 1, 2, 127, 128, 129, 16384, 16512, 2147483647}

AscendingPositionLists ==
    {SetToSortedSeq(S) : S \in {T \in SUBSET PositionPool :
                                    Cardinality(T) <= MaxPositions}}

CodecIdle ==
    /\ vb_stage = "off"
    /\ vb_num = 0
    /\ vb_tail = <<>>
    /\ vb_buf = <<>>
    /\ vb_res = [number |-> 0, bytes_read |-> 0, overflow |-> FALSE]
    /\ pos_stage = "off"
    /\ pos_in = <<>>
    /\ pos_buf = <<>>
    /\ pos_res = <<>>

CodecInputs ==
    \/ /\ vb_stage = "input"
       /\ vb_num \in U32Samples
       /\ vb_tail \in TailSamples
       /\ vb_buf = <<>>
       /\ vb_res = [number |-> 0, bytes_read |-> 0, overflow |-> FALSE]
       /\ pos_stage = "off"
       /\ pos_in = <<>>
       /\ pos_buf = <<>>
       /\ pos_res = <<>>
    \/ /\ vb_stage = "off"
       /\ vb_num = 0
       /\ vb_tail = <<>>
       /\ vb_buf = <<>>
       /\ vb_res = [number |-> 0, bytes_read |-> 0, overflow |-> FALSE]
       /\ pos_stage = "input"
       /\ pos_in \in AscendingPositionLists
       /\ pos_buf = <<>>
       /\ pos_res = <<>>

VbEncode ==
    /\ vb_stage = "input"
    /\ vb_buf' = vb_encode(vb_num) \o vb_tail
    /\ vb_stage' = "encoded"
    /\ UNCHANGED <<vb_num, vb_tail, vb_res, pos_stage, pos_in, pos_buf, pos_res, writer_vars, ingest_vars, fs, merge_vars, aux_vars>>

VbDecode ==
    /\ vb_stage = "encoded"
    /\ vb_res' = vb_decode(vb_buf)
    /\ vb_stage' = "decoded"
    /\ UNCHANGED <<vb_num, vb_tail, vb_buf, pos_stage, pos_in, pos_buf, pos_res, writer_vars, ingest_vars, fs, merge_vars, aux_vars>>

EncodePositions ==
    /\ pos_stage = "input"
    /\ pos_buf' = vb_encode_positions(pos_in)
    /\ pos_stage' = "encoded"
    /\ UNCHANGED <<vb_stage, vb_num, vb_tail, vb_buf, vb_res, pos_in, pos_res, writer_vars, ingest_vars, fs, merge_vars, aux_vars>>

DecodePositions ==
    /\ pos_stage = "encoded"
    /\ pos_res' = vb_decode_positions(pos_buf)
    /\ pos_stage' = "decoded"
    /\ UNCHANGED <<vb_stage, vb_num, vb_tail, vb_buf, vb_res, pos_in, pos_buf, writer_vars, ingest_vars, fs, merge_vars, aux_vars>>

CodecInit == CodecInputs /\ WriterIdle /\ IngestIdle /\ DiskIdle /\ MergeIdle /\ AuxIdle

CodecNext == VbEncode \/ VbDecode \/ EncodePositions \/ DecodePositions

SpecCodec == CodecInit /\ [][CodecNext]_vars

(***************************************************************************)
(* Writer harness: add_term calls with drawn posting lists, finish, and    *)
(* reading terms back from the index file.                                 *)
(***************************************************************************)
\* the positions 1, 2, .., n
Run(n) == [k \in 1 .. n |-> k]

\* n postings with doc-ids first, first + gap, .. and the same positions
UniformPostings(n, first, gap, positions) ==
    [k \in 1 .. n |-> [doc_id |-> first + (k - 1) * gap, positions |-> positions]]

\* the posting lists add_term is called with: strictly ascending doc-ids
\* >= 1 and strictly ascending positions
PostingLists ==
    { UniformPostings(1, 7, 1, <<>>),
      UniformPostings(2, 3, 16384, <<0, 3>>),
      UniformPostings(2, 3, 200, <<5, 16389>>),
      UniformPostings(128, 1, 1, <<1>>),
      UniformPostings(129, 1, 2, <<1>>),
      UniformPostings(3, 5, 1000, Run(400)),
      UniformPostings(1, 4, 1, Run(600)),
      UniformPostings(1, 9, 1, Run(1000)) }

\* the max_block_size values (in kB) a writer is created with
BlockSizesKb == {1, 2}

WriterInit ==
    /\ AuxIdle
    /\ CodecIdle
    /\ IngestIdle
    /\ DiskIdle
    /\ MergeIdle
    /\ writer \in {NewWriter(k) : k \in BlockSizesKb}
    /\ added = <<>>
    /\ finished = FALSE
    /\ read_term = 0
    /\ read_result = NoRead

AddTerm ==
    /\ ~finished
    /\ Len(added) < MaxTerms
    /\ \E postings \in PostingLists :
          /\ writer' = add_term(writer, Len(added) + 1, postings)
          /\ added' = Append(added, postings)
    /\ UNCHANGED <<finished, read_term, read_result, codec_vars, ingest_vars, fs, merge_vars, aux_vars>>

Finish ==
    /\ ~finished
    /\ writer' = finish(writer)
    /\ finished' = TRUE
    /\ UNCHANGED <<added, read_term, read_result, codec_vars, ingest_vars, fs, merge_vars, aux_vars>>

ReadTerm ==
    /\ finished
    /\ \E term \in 1 .. Len(added) :
          /\ read_term' = term
          /\ read_result' = ReadPostings(writer.file,
                 writer.term_metadata[term].block_ids, term, 1)
    /\ UNCHANGED <<writer, added, finished, codec_vars, ingest_vars, fs, merge_vars, aux_vars>>

WriterNext == AddTerm \/ Finish

\* the writer alone
SpecWriter == WriterInit /\ [][WriterNext]_vars

ReaderNext == AddTerm \/ Finish \/ ReadTerm

\* the writer, and the index file read back after finish
SpecReader == WriterInit /\ [][ReaderNext]_vars

(***************************************************************************)
(* Ingest harness: a producer sends records on the channel and drops the   *)
(* sender; single_pass_in_memory_indexing receives them.                   *)
(***************************************************************************)
\* the terms of the records sent: "a", "b"
IngestTerms == {<<97>>, <<98>>}

\* the position lists of the records sent
IngestPositions == {<<1>>, <<2, 5>>}

\* the values Dictionary::max_size() is run with: the constant of the
\* source, and sizes that the records sent can reach
MaxSizes == {13, 30, 10000000}

\* a receiver that gives up as soon as the queue is empty
rx_try_recv(queue, open) == IF queue # <<>> THEN "Ok" ELSE "Err"

\* mpsc::Receiver::recv: Ok with the oldest record queued; Err when the
\* queue is empty and every sender dropped; otherwise the call blocks
rx_recv(queue, open) ==
    IF queue # <<>> THEN "Ok" ELSE IF ~open THEN "Err" ELSE "blocks"

\* one iteration of the while loop of single_pass_in_memory_indexing on
\* the record `term`: `flush` says that the dictionary is written and
\* cleared first, `file` is what is then written
spimi_step(dict, max, term) ==
    LET exists == does_term_already_exist(dict, term.term)
        flush == dict.current_size >= max
        kept == IF flush THEN dictionary_clear(dict) ELSE dict
        with_term == IF ~exists THEN dictionary_add_term(kept, term.term) ELSE kept
    IN  [flush |-> flush,
         file |-> IF flush THEN write_dictionary_to_disk(sort_terms(dict), dict)
                  ELSE <<>>,
         dictionary |-> append_to_term(with_term, term.term, term.posting)]

IngestInit ==
    /\ AuxIdle
    /\ CodecIdle
    /\ WriterIdle
    /\ MergeIdle
    /\ DiskIdle
    /\ channel = <<>>
    /\ sender_open = TRUE
    /\ sent = <<>>
    /\ received = <<>>
    /\ dictionary = NewDictionary
    /\ max_size \in MaxSizes
    /\ spimi_state = "running"

\* tx.send of the next record; the k-th record sent is of document k
Send ==
    /\ sender_open
    /\ spimi_state = "running"
    /\ Len(sent) < MaxRecords
    /\ \E t \in IngestTerms, positions \in IngestPositions :
          LET term == [term |-> t,
                       posting |-> [doc_id |-> Len(sent) + 1, positions |-> positions]]
          IN  /\ channel' = Append(channel, term)
              /\ sent' = Append(sent, term)
    /\ UNCHANGED <<sender_open, received, dictionary, max_size, spimi_state, fs,
                   codec_vars, writer_vars, merge_vars, aux_vars>>

\* the sender is dropped
CloseSender ==
    /\ sender_open
    /\ sender_open' = FALSE
    /\ UNCHANGED <<channel, sent, received, dictionary, max_size, spimi_state, fs,
                   codec_vars, writer_vars, merge_vars, aux_vars>>

\* rx.recv() returns a record: one iteration of the loop.  File::create
\* of the flush succeeds or fails; on failure the function returns Err.
ReceiveRecord ==
    /\ spimi_state = "running"
    /\ rx_recv(channel, sender_open) = "Ok"
    /\ received' = Append(received, Head(channel))
    /\ LET step == spimi_step(dictionary, max_size, Head(channel))
       IN  \E created \in (IF step.flush THEN BOOLEAN ELSE {TRUE}) :
              /\ channel' = Tail(channel)
              /\ IF created
                 THEN /\ dictionary' = step.dictionary
                      /\ fs' = IF step.flush
                               THEN FileCreate(fs, RunFileName, step.file)
                               ELSE fs
                      /\ UNCHANGED spimi_state
                 ELSE /\ spimi_state' = "err"
                      /\ UNCHANGED <<dictionary, fs>>
    /\ UNCHANGED <<sender_open, sent, max_size, codec_vars, writer_vars, merge_vars, aux_vars>>

\* rx.recv() returns Err (the channel is empty and the sender dropped): the
\* loop is left, the dictionary written, and the function returns
EndOfRecords ==
    /\ spimi_state = "running"
    /\ rx_recv(channel, sender_open) = "Err"
    /\ \E created \in BOOLEAN :
          IF created
          THEN /\ fs' = FileCreate(fs, RunFileName,
                            write_dictionary_to_disk(sort_terms(dictionary), dictionary))
               /\ spimi_state' = "ok"
          ELSE /\ spimi_state' = "err"
               /\ UNCHANGED fs
    /\ UNCHANGED <<channel, sender_open, sent, received, dictionary, max_size,
                   codec_vars, writer_vars, merge_vars, aux_vars>>

IngestNext == Send \/ CloseSender \/ ReceiveRecord \/ EndOfRecords

SpecIngest == IngestInit /\ [][IngestNext]_vars

(***************************************************************************)
(* Merge harness: run files are drawn at Init, merge_index_files runs on   *)
(* them, and terms are looked up in the directory it returns.              *)
(***************************************************************************)
\* the terms of the run files: "a", "ab", "b"
MergeTerms == {<<97>>, <<97, 98>>, <<98>>}

\* the doc-ids of the run files
MergeDocIds == {1, 2}

\* the (term, doc-id) pairs that the runs are drawn from
RunPairs == MergeTerms \X MergeDocIds

\* the positions of a term in a document
PositionsOf(term, doc_id) == <<doc_id, doc_id + Len(term)>>

\* the dictionary of run r when the pairs are assigned to runs by `assign`:
\* every term with a pair in r, its postings ascending by doc-id
RunDictionary(assign, r) ==
    LET pairs == {p \in DOMAIN assign : assign[p] = r}
        docs(t) == SetToSortedSeq({p[2] : p \in {q \in pairs : q[1] = t}})
    IN  [current_size |-> 0,
         dictionary |-> [t \in {p[1] : p \in pairs} |->
                            [k \in 1 .. Len(docs(t)) |->
                                [doc_id |-> docs(t)[k],
                                 positions |-> PositionsOf(t, docs(t)[k])]]]]

\* the path of run file r
RunPath(r) == [dir |-> "index_directory", stem |-> ToString(r), ext |-> "idx"]

\* a file of index_directory that is not a run file
OtherPath == [dir |-> "index_directory", stem |-> "notes", ext |-> "txt"]

\* the path of the merged index
FinalIndexPath == [dir |-> "", stem |-> "final", ext |-> "idx"]

\* the files of index_directory for the runs rs
RunFiles(rs) ==
    [p \in {RunPath(r) : r \in 1 .. Len(rs)} \cup {OtherPath} |->
        IF p = OtherPath THEN <<1, 2, 3>>
        ELSE LET r == CHOOSE r \in 1 .. Len(rs) : RunPath(r) = p
             IN  write_dictionary_to_disk(sort_terms(rs[r]), rs[r])]

\* the terms that are not in any run, looked up as well: "c"
LookupTerms == MergeTerms \cup {<<99>>}

MergeInit ==
    /\ AuxIdle
    /\ CodecIdle
    /\ WriterIdle
    /\ IngestIdle
    /\ \E n \in 0 .. MaxRuns : \E S \in SUBSET RunPairs :
          /\ Cardinality(S) <= MaxRunPostings
          /\ \E assign \in [S -> 1 .. n] :
                runs = [r \in 1 .. n |-> RunDictionary(assign, r)]
    /\ fs = RunFiles(runs)
    /\ metadata = NewMetadata
    /\ merged_terms = <<>>
    /\ merge_state = "ready"
    /\ lookup_term = None
    /\ lookup_id = 0

\* merge_index_files(block_size), from File::create of final.idx to the
\* return; File::create succeeds or fails
MergeIndexFiles ==
    /\ merge_state = "ready"
    /\ \E block_size \in BlockSizesKb,
          order \in ScanOrders(IdxFiles(fs, "index_directory")),
          created \in BOOLEAN :
          \E r \in {merge_index_files(fs, order, block_size)} :
              IF ~created
              THEN /\ merge_state' = "err"
                   /\ UNCHANGED <<fs, writer, added, metadata, merged_terms>>
              ELSE /\ fs' = FileCreate(fs, FinalIndexPath, <<>>)
                   /\ merge_state' = IF r.err THEN "err"
                                     ELSE IF r.done THEN "ok" ELSE "running"
                   /\ writer' = IF order = <<>> \/ r.err THEN writer
                                ELSE r.index_merge_writer
                   /\ added' = IF r.err THEN added ELSE r.emitted
                   /\ merged_terms' = IF r.err THEN merged_terms ELSE r.emitted_terms
                   /\ metadata' = IF r.err THEN metadata ELSE r.metadata
    /\ UNCHANGED <<runs, lookup_term, lookup_id, finished, read_term, read_result,
                   codec_vars, ingest_vars, aux_vars>>

\* InMemoryIndexMetatdata::get_term_id on the directory the merge returned
GetTermId ==
    /\ merge_state = "ok"
    /\ \E term \in LookupTerms :
          /\ lookup_term' = Some(term)
          /\ lookup_id' = get_term_id(metadata, term)
    /\ UNCHANGED <<runs, metadata, merged_terms, merge_state, fs,
                   codec_vars, writer_vars, ingest_vars, aux_vars>>

MergeNext == MergeIndexFiles \/ GetTermId

SpecMerge == MergeInit /\ [][MergeNext]_vars

(***************************************************************************)
(* Posting-list codec harness: a posting list is drawn at Init, encoded    *)
(* and decoded.                                                            *)
(***************************************************************************)
\* the largest value of the u16 length field of a posting
U16Max == 65535

DocIdPool == {0, 1, 2, 128, 16384}

PositionChoices == {<<>>, <<0>>, <<1, 128>>, <<5, 16389>>}

\* posting lists with ascending doc-ids, every posting with one of the
\* position lists above
SmallPostingLists ==
    UNION {[1 .. Cardinality(D) -> PositionChoices] : D \in SUBSET DocIdPool}

PostingListOf(D, choice) ==
    LET ids == SetToSortedSeq(D)
    IN  [k \in 1 .. Len(ids) |-> [doc_id |-> ids[k], positions |-> choice[k]]]

\* one posting whose positions are 1 ..= n (one byte each once encoded)
ManyPositions(n) == <<[doc_id |-> 42, positions |-> Run(n)]>>

PostingListInputs ==
    {PostingListOf(D, choice) :
        <<D, choice>> \in {<<D, choice>> \in
            {T \in SUBSET DocIdPool : Cardinality(T) <= MaxTerms}
                \X SmallPostingLists : DOMAIN choice = 1 .. Cardinality(D)}}
    \cup {ManyPositions(1000), ManyPositions(U16Max), ManyPositions(U16Max + 1)}

outside_postings ==
    <<base_vars, runfile_vars, directory_vars, query_vars, processor_vars, phrase_vars,
      late_vars>>

PostingsInit ==
    /\ CodecIdle
    /\ WriterIdle
    /\ IngestIdle
    /\ DiskIdle
    /\ MergeIdle
    /\ RunFileIdle
    /\ DirectoryIdle
    /\ QueryIdle
    /\ ProcessorIdle
    /\ PhraseIdle
    /\ LateIdle
    /\ pl_stage = "input"
    /\ pl_in \in PostingListInputs
    /\ pl_buf = <<>>
    /\ pl_res = <<>>

EncodePostingList ==
    /\ pl_stage = "input"
    /\ pl_buf' = vb_encode_posting_list(pl_in)
    /\ pl_stage' = "encoded"
    /\ UNCHANGED <<pl_in, pl_res, outside_postings>>

DecodePostingList ==
    /\ pl_stage = "encoded"
    /\ pl_res' = vb_decode_posting_list(pl_buf)
    /\ pl_stage' = "decoded"
    /\ UNCHANGED <<pl_in, pl_buf, outside_postings>>

PostingsNext == EncodePostingList \/ DecodePostingList

SpecPostings == PostingsInit /\ [][PostingsNext]_vars

(***************************************************************************)
(* Run-file harness: a dictionary is written as a run file, an iterator is *)
(* initialised on the file and stepped up to and past its end.             *)
(***************************************************************************)
\* how many times next() is called after it first returned false
MaxExtraNext == 2

\* the records of one document, as read_bz2_file sends them
RecordsOfDoc(S, doc) ==
    LET ts == SortStrings({p[1] : p \in {q \in S : q[2] = doc}})
    IN  [k \in 1 .. Len(ts) |->
            [term |-> ts[k],
             posting |-> [doc_id |-> doc, positions |-> PositionsOf(ts[k], doc)]]]

RECURSIVE DictionaryOf(_, _)
\* the dictionary after add_term and append_to_term of every record
DictionaryOf(records, d) ==
    IF records = <<>> THEN d
    ELSE DictionaryOf(Tail(records),
                      append_to_term(dictionary_add_term(d, Head(records).term),
                                     Head(records).term, Head(records).posting))

\* a dictionary with a posting of U16Max + 1 positions
LargePostingRecords ==
    <<[term |-> <<97>>, posting |-> ManyPositions(U16Max + 1)[1]],
      [term |-> <<98>>, posting |-> [doc_id |-> 42, positions |-> <<7>>]]>>

RunFileDictionaries ==
    {DictionaryOf(RecordsOfDoc(S, 1) \o RecordsOfDoc(S, 2), NewDictionary) :
        S \in {T \in SUBSET RunPairs : Cardinality(T) <= MaxRunPostings}}
    \cup {DictionaryOf(LargePostingRecords, NewDictionary)}

outside_runfile ==
    <<base_vars, postings_vars, directory_vars, query_vars, processor_vars, phrase_vars,
      late_vars>>

RunFileInit ==
    /\ CodecIdle
    /\ WriterIdle
    /\ IngestIdle
    /\ DiskIdle
    /\ MergeIdle
    /\ PostingsIdle
    /\ DirectoryIdle
    /\ QueryIdle
    /\ ProcessorIdle
    /\ PhraseIdle
    /\ LateIdle
    /\ rf_stage = "dictionary"
    /\ rf_dict \in RunFileDictionaries
    /\ rf_file = <<>>
    /\ rf_it = NewIterator(<<>>)
    /\ rf_seen = <<>>
    /\ rf_returns = <<>>

\* what the iterator exposes after a call
Exposed(it) ==
    IF it.current_term.some /\ it.current_postings.some
    THEN <<[term |-> it.current_term.v, postings |-> it.current_postings.v]>>
    ELSE <<>>

\* write_dictionary_to_disk(filename, &dictionary.sort_terms(), &dictionary)
WriteRunFile ==
    /\ rf_stage = "dictionary"
    /\ rf_file' = write_dictionary_to_disk(sort_terms(rf_dict), rf_dict)
    /\ rf_stage' = "written"
    /\ UNCHANGED <<rf_dict, rf_it, rf_seen, rf_returns, outside_runfile>>

\* IndexMergeIterator::new(file) and init()
IteratorInit ==
    /\ rf_stage = "written"
    /\ \E it \in {iterator_init(NewIterator(rf_file))} :
          /\ rf_it' = it
          /\ rf_seen' = Exposed(it)
    /\ rf_stage' = "iterating"
    /\ UNCHANGED <<rf_dict, rf_file, rf_returns, outside_runfile>>

\* next(); it returns Ok(false) when current_term_no >= no_of_terms at the
\* call, Ok(true) after loading an entry, Err when a read fails
IteratorNext ==
    /\ rf_stage = "iterating"
    /\ ~rf_it.err
    /\ Cardinality({k \in 1 .. Len(rf_returns) : rf_returns[k] = "false"})
           <= MaxExtraNext
    /\ \E it \in {iterator_next(rf_it)} :
          /\ rf_it' = it
          /\ IF it.err
             THEN /\ rf_returns' = Append(rf_returns, "err")
                  /\ UNCHANGED rf_seen
             ELSE IF rf_it.current_term_no >= rf_it.no_of_terms
             THEN /\ rf_returns' = Append(rf_returns, "false")
                  /\ UNCHANGED rf_seen
             ELSE /\ rf_returns' = Append(rf_returns, "true")
                  /\ rf_seen' = rf_seen \o Exposed(it)
    /\ UNCHANGED <<rf_stage, rf_dict, rf_file, outside_runfile>>

RunFileNext == WriteRunFile \/ IteratorInit \/ IteratorNext

SpecRunFile == RunFileInit /\ [][RunFileNext]_vars

(***************************************************************************)
(* Term-directory harness: the merge builds the directory, then terms are  *)
(* looked up in it.                                                        *)
(***************************************************************************)
\* Indexer::get_term_metadata -> InMemoryIndexMetatdata::get_term_metadata
\* -> MapInMemoryDict::get_term_metadata on the directory the merge returned
GetTermMetadata ==
    /\ merge_state = "ok"
    /\ \E term \in LookupTerms :
          /\ md_term' = Some(term)
          /\ md_result' = get_term_metadata(metadata, term)
    /\ UNCHANGED <<base_vars, postings_vars, runfile_vars, query_vars, processor_vars,
                   phrase_vars, late_vars>>

DirectoryNext == MergeIndexFiles \/ GetTermId \/ GetTermMetadata

SpecDirectory == MergeInit /\ [][DirectoryNext]_vars

(***************************************************************************)
(* Query harness: a query string is drawn at Init and handled.             *)
(***************************************************************************)
MaxQueryLen == 4

\* space, '!', '-', 'B', 'a', 's'
QueryChars == {32, 33, 45, 66, 97, 115}

QueryStrings == UNION {[1 .. n -> QueryChars] : n \in 0 .. MaxQueryLen}

QueryInit ==
    /\ CodecIdle
    /\ WriterIdle
    /\ IngestIdle
    /\ DiskIdle
    /\ MergeIdle
    /\ PostingsIdle
    /\ RunFileIdle
    /\ DirectoryIdle
    /\ ProcessorIdle
    /\ PhraseIdle
    /\ LateIdle
    /\ q_stage = "query"
    /\ q_query \in QueryStrings
    /\ q_result = NotHandled

HandleQuery ==
    /\ q_stage = "query"
    /\ q_result' = handle_query(q_query)
    /\ q_stage' = "handled"
    /\ UNCHANGED <<q_query, base_vars, postings_vars, runfile_vars, directory_vars,
                   processor_vars, phrase_vars, late_vars>>

QueryNext == HandleQuery

SpecQuery == QueryInit /\ [][QueryNext]_vars

(***************************************************************************)
(* Query-processor harness: an index file is written for a drawn corpus    *)
(* with one-kB blocks, then process_query is called on it.                 *)
(***************************************************************************)
QueryTermIds == {1, 2}

QueryDocIds == {1, 2, 3}

\* the posting lists of a term: its documents, with one position each or
\* with 400 (so that the list spans blocks)
TermPostingLists ==
    {[k \in 1 .. Cardinality(D) |->
         [doc_id |-> SetToSortedSeq(D)[k], positions |-> positions]] :
        <<D, positions>> \in (SUBSET QueryDocIds \ {{}}) \X {<<1>>, Run(400)}}

\* the queries: one or two term ids
TermQueries == UNION {[1 .. n -> QueryTermIds] : n \in 1 .. 2}

RECURSIVE IndexOf(_, _, _)
\* add_term for the term ids i.. in ascending order, then finish
IndexOf(lists, i, w) ==
    IF i > Len(lists) THEN finish(w)
    ELSE IndexOf(lists, i + 1, add_term(w, i, lists[i]))

\* the pointers the term directory holds for the terms of the query
QueryMetadata(w, query) ==
    [k \in 1 .. Len(query) |->
        [term_id |-> query[k],
         term_frequency |-> w.term_metadata[query[k]].term_frequency,
         block_ids |-> w.term_metadata[query[k]].block_ids]]

ProcessorInit ==
    /\ CodecIdle
    /\ WriterIdle
    /\ IngestIdle
    /\ DiskIdle
    /\ MergeIdle
    /\ PostingsIdle
    /\ RunFileIdle
    /\ DirectoryIdle
    /\ QueryIdle
    /\ PhraseIdle
    /\ LateIdle
    /\ qp_stage = "corpus"
    /\ qp_lists \in [QueryTermIds -> TermPostingLists]
    /\ qp_index = NewWriter(0)
    /\ qp_query = <<>>
    /\ qp_result = NoAnswer

outside_processor ==
    <<base_vars, postings_vars, runfile_vars, directory_vars, query_vars, phrase_vars,
      late_vars>>

BuildIndex ==
    /\ qp_stage = "corpus"
    /\ qp_index' = IndexOf(qp_lists, 1, NewWriter(1))
    /\ qp_stage' = "indexed"
    /\ UNCHANGED <<qp_lists, qp_query, qp_result, outside_processor>>

ProcessQuery ==
    /\ qp_stage = "indexed"
    /\ \E query \in TermQueries :
          /\ qp_query' = query
          /\ qp_result' = process_query(qp_index.file, query,
                                        QueryMetadata(qp_index, query))
    /\ qp_stage' = "answered"
    /\ UNCHANGED <<qp_lists, qp_index, outside_processor>>

ProcessorNext == BuildIndex \/ ProcessQuery

SpecProcessor == ProcessorInit /\ [][ProcessorNext]_vars

(***************************************************************************)
(* Phrase harness: two documents are drawn, their posting lists built, and *)
(* find_documents_optimized is called with and without phrase matching.    *)
(***************************************************************************)
\* "a", "b", "c"
PhraseWords == {<<97>>, <<98>>, <<99>>}

\* doc 1 has three tokens, doc 2 two
PhraseCorpora ==
    {<<d1, d2>> : d1 \in [1 .. 3 -> PhraseWords],
                  d2 \in {<<<<97>>, <<98>>>>, <<<<98>>, <<97>>>>}}

PhraseQueries == UNION {[1 .. n -> PhraseWords] : n \in 1 .. 2}

\* the positions of a word in a document, from 0
PositionsIn(doc, word) ==
    SetToSortedSeq({k - 1 : k \in {j \in 1 .. Len(doc) : doc[j] = word}})

\* the posting lists of the corpus, as the index holds them
TermPostingsOf(docs) ==
    [word \in UNION {SeqToSet(docs[d]) : d \in 1 .. Len(docs)} |->
        LET ids == SetToSortedSeq({d \in 1 .. Len(docs) : word \in SeqToSet(docs[d])})
        IN  [k \in 1 .. Len(ids) |->
                [doc_id |-> ids[k], positions |-> PositionsIn(docs[ids[k]], word)]]]

PhraseInit ==
    /\ CodecIdle
    /\ WriterIdle
    /\ IngestIdle
    /\ DiskIdle
    /\ MergeIdle
    /\ PostingsIdle
    /\ RunFileIdle
    /\ DirectoryIdle
    /\ QueryIdle
    /\ ProcessorIdle
    /\ LateIdle
    /\ ph_stage = "query"
    /\ ph_docs \in PhraseCorpora
    /\ ph_words = <<>>
    /\ ph_phrase = FALSE
    /\ ph_result = <<>>

outside_phrase ==
    <<base_vars, postings_vars, runfile_vars, directory_vars, query_vars, processor_vars,
      late_vars>>

\* find_documents_optimized(words, &term_postings, phrase_matching)
FindDocuments(phrase_matching) ==
    /\ ph_stage = "query"
    /\ \E words \in PhraseQueries :
          /\ ph_words' = words
          /\ ph_result' = find_documents_optimized(words, TermPostingsOf(ph_docs),
                                                   phrase_matching)
    /\ ph_phrase' = phrase_matching
    /\ ph_stage' = "found"
    /\ UNCHANGED <<ph_docs, outside_phrase>>

\* the call of ranking worker 1
FindPhrase == FindDocuments(TRUE)

\* the call of ranking workers 2 and 3
FindConjunction == FindDocuments(FALSE)

PhraseNext == FindPhrase \/ FindConjunction

SpecPhrase == PhraseInit /\ [][PhraseNext]_vars

(***************************************************************************)
(* Ranking workers: search_engine.rs, handle_query from the creation of    *)
(* the channels.  Three workers are spawned, each finds its documents,     *)
(* ranks them and sends its top_k; the coordinator receives on rx1, rx2,   *)
(* rx3, appends the lists and joins the workers.                           *)
(***************************************************************************)
\* let k = 2
TopK == 2

Workers == 1 .. 3

\* the bigram tokens of a word sequence: format!("{} {}", prev, current)
Bigrams(words) ==
    [k \in 1 .. Len(words) - 1 |-> words[k] \o <<32>> \o words[k + 1]]

\* BinaryHeap<ScoredDoc>::pop: an entry that no entry of the heap exceeds;
\* ScoredDoc is ordered by score alone
heap_pop(max_heap) == {e \in max_heap : \A o \in max_heap : o.score <= e.score}

RECURSIVE top_k_lists(_, _)
\* the lists that `for _ in 0..k.min(max_heap.len())` can build by popping
top_k_lists(max_heap, k) ==
    IF k = 0 \/ max_heap = {} THEN {<<>>}
    ELSE UNION {{<<<<e.doc_id, e.score>>>> \o rest :
                    rest \in top_k_lists(max_heap \ {e}, k - 1)} :
                e \in heap_pop(max_heap)}

\* the words, posting lists, scores and phrase flag worker w captures
captured(in, w) ==
    IF w = 2
    THEN [words |-> in.bigram_words, postings_list |-> in.bigram_postings_list,
          scores |-> in.bigram_scores, phrase_matching |-> FALSE]
    ELSE [words |-> in.unigram_words, postings_list |-> in.unigram_postings_list,
          scores |-> in.unigram_scores, phrase_matching |-> (w = 1)]

\* scores[(doc_id - 1) as usize] is inside the vector
score_in_bounds(scores, doc_id) == doc_id >= 1 /\ doc_id - 1 < Len(scores)

\* the coordinator's position after step n of a stage
co_after(stage, n, then) ==
    IF n < 3 THEN [stage |-> stage, n |-> n + 1] ELSE [stage |-> then, n |-> 1]

RankDocs ==
    {<<d1, d2>> : d1 \in {<<<<97>>, <<98>>>>, <<<<98>>, <<97>>>>},
                  d2 \in {<<<<97>>, <<98>>>>, <<<<97>>, <<99>>>>}}

RankQueries == {<<<<97>>>>, <<<<97>>, <<98>>>>, <<<<98>>, <<97>>>>}

\* the score vectors, one entry per document
RankScores == [1 .. 2 -> {1, 2}]

RankingInit ==
    /\ CodecIdle
    /\ WriterIdle
    /\ IngestIdle
    /\ DiskIdle
    /\ MergeIdle
    /\ PostingsIdle
    /\ RunFileIdle
    /\ DirectoryIdle
    /\ QueryIdle
    /\ ProcessorIdle
    /\ PhraseIdle
    /\ IndexIdle
    /\ MoreIdle
    /\ \E docs \in RankDocs, words \in RankQueries, scores \in RankScores :
          rk_in = [docs |-> docs,
                   unigram_words |-> words,
                   bigram_words |-> Bigrams(words),
                   unigram_postings_list |-> TermPostingsOf(docs),
                   bigram_postings_list |->
                       TermPostingsOf([d \in 1 .. Len(docs) |-> Bigrams(docs[d])]),
                   unigram_scores |-> scores,
                   bigram_scores |-> scores]
    /\ rk_workers = [w \in Workers |-> [pc |-> "unborn", docs |-> <<>>, top_k |-> <<>>]]
    /\ rk_chan = [w \in Workers |-> [queue |-> <<>>, tx |-> TRUE]]
    /\ rk_co = [pc |-> [stage |-> "spawn", n |-> 1], lists |-> <<>>,
                query_result |-> <<>>]

outside_ranking ==
    <<base_vars, postings_vars, runfile_vars, directory_vars, query_vars, processor_vars,
      phrase_vars, index_vars, more_vars>>

\* thread::spawn of the next worker
Spawn ==
    /\ rk_co.pc.stage = "spawn"
    /\ rk_workers' = [rk_workers EXCEPT ![rk_co.pc.n].pc = "spawned"]
    /\ rk_co' = [rk_co EXCEPT !.pc = co_after("spawn", rk_co.pc.n, "recv")]
    /\ UNCHANGED <<rk_in, rk_chan, outside_ranking>>

\* worker w: let docs = find_documents_optimized(..)
WorkerFind(w) ==
    /\ rk_workers[w].pc = "spawned"
    /\ LET c == captured(rk_in, w)
       IN  rk_workers' = [rk_workers EXCEPT
               ![w].pc = "found",
               ![w].docs = find_documents_optimized(c.words, c.postings_list,
                                                    c.phrase_matching)]
    /\ UNCHANGED <<rk_in, rk_chan, rk_co, outside_ranking>>

\* worker w: the heap is filled and top_k popped from it; an index outside
\* the score vector panics, which drops the worker's tx
WorkerRank(w) ==
    /\ rk_workers[w].pc = "found"
    /\ LET c == captured(rk_in, w)
           docs == rk_workers[w].docs
       IN  IF \A k \in 1 .. Len(docs) : score_in_bounds(c.scores, docs[k])
           THEN /\ \E top_k \in top_k_lists({[doc_id |-> docs[k],
                                              score |-> c.scores[(docs[k] - 1) + 1]] :
                                                 k \in 1 .. Len(docs)}, TopK) :
                      rk_workers' = [rk_workers EXCEPT ![w].pc = "ranked",
                                                       ![w].top_k = top_k]
                /\ UNCHANGED rk_chan
           ELSE /\ rk_workers' = [rk_workers EXCEPT ![w].pc = "panicked"]
                /\ rk_chan' = [rk_chan EXCEPT ![w].tx = FALSE]
    /\ UNCHANGED <<rk_in, rk_co, outside_ranking>>

\* worker w: tx.send(top_k).unwrap(), and the closure ends
WorkerSend(w) ==
    /\ rk_workers[w].pc = "ranked"
    /\ rk_chan' = [rk_chan EXCEPT ![w].queue = Append(@, rk_workers[w].top_k),
                                  ![w].tx = FALSE]
    /\ rk_workers' = [rk_workers EXCEPT ![w].pc = "exited"]
    /\ UNCHANGED <<rk_in, rk_co, outside_ranking>>

\* the coordinator: rx.recv().unwrap() on the next channel; it blocks while
\* the channel is empty and its tx lives, and panics on a dropped tx
Recv ==
    /\ rk_co.pc.stage = "recv"
    /\ LET n == rk_co.pc.n
       IN  /\ rk_chan[n].queue # <<>> \/ ~rk_chan[n].tx
           /\ IF rk_chan[n].queue # <<>>
              THEN /\ rk_chan' = [rk_chan EXCEPT ![n].queue = Tail(@)]
                   /\ rk_co' = [rk_co EXCEPT
                          !.lists = Append(@, Head(rk_chan[n].queue)),
                          !.pc = co_after("recv", n, "append")]
              ELSE /\ rk_co' = [rk_co EXCEPT !.pc = [stage |-> "panicked", n |-> n]]
                   /\ UNCHANGED rk_chan
    /\ UNCHANGED <<rk_in, rk_workers, outside_ranking>>

\* the coordinator: the three appends to query_result
AppendLists ==
    /\ rk_co.pc.stage = "append"
    /\ rk_co' = [rk_co EXCEPT
           !.query_result = rk_co.lists[1] \o rk_co.lists[2] \o rk_co.lists[3],
           !.pc = [stage |-> "join", n |-> 1]]
    /\ UNCHANGED <<rk_in, rk_workers, rk_chan, outside_ranking>>

\* the coordinator: handle.join().unwrap() on the next worker, and after
\* the last one the return of Ok(())
Join ==
    /\ rk_co.pc.stage = "join"
    /\ LET n == rk_co.pc.n
       IN  /\ rk_workers[n].pc \in {"exited", "panicked"}
           /\ rk_co' = [rk_co EXCEPT
                  !.pc = IF rk_workers[n].pc = "panicked"
                         THEN [stage |-> "panicked", n |-> n]
                         ELSE co_after("join", n, "returned")]
    /\ UNCHANGED <<rk_in, rk_workers, rk_chan, outside_ranking>>

Worker(w) == WorkerFind(w) \/ WorkerRank(w) \/ WorkerSend(w)

RankingNext == Spawn \/ (\E w \in Workers : Worker(w)) \/ Recv \/ AppendLists \/ Join

SpecRanking == RankingInit /\ [][RankingNext]_vars

(***************************************************************************)
(* Index harness: Indexer::index.  The caller's thread produces the        *)
(* records (process_directory, read_bz2_file), the spawned thread runs     *)
(* single_pass_in_memory_indexing; then the sender is dropped, the thread  *)
(* joined and merge_index_files called.                                    *)
(***************************************************************************)
IndexInit ==
    /\ CodecIdle
    /\ WriterIdle
    /\ MergeIdle
    /\ DiskIdle
    /\ PostingsIdle
    /\ RunFileIdle
    /\ DirectoryIdle
    /\ QueryIdle
    /\ ProcessorIdle
    /\ PhraseIdle
    /\ RankingIdle
    /\ MoreIdle
    /\ channel = <<>>
    /\ sender_open = TRUE
    /\ sent = <<>>
    /\ received = <<>>
    /\ dictionary = NewDictionary
    /\ max_size \in MaxSizes
    /\ spimi_state = "running"
    /\ ix_pc = "producing"
    /\ ix_result = "none"

\* tx.send(term).unwrap() of read_bz2_file after the receiver was dropped
\* (single_pass_in_memory_indexing has returned Err): send fails and the
\* unwrap panics on the thread that called index()
SendToDroppedReceiver ==
    /\ ix_pc = "producing"
    /\ sender_open
    /\ spimi_state = "err"
    /\ Len(sent) < MaxRecords
    /\ ix_pc' = "panicked"
    /\ sender_open' = FALSE
    /\ UNCHANGED <<channel, sent, received, dictionary, max_size, spimi_state, fs,
                   ix_result,
                   codec_vars, writer_vars, merge_vars, postings_vars, runfile_vars,
                   directory_vars, query_vars, processor_vars, phrase_vars,
                   ranking_vars, more_vars>>

\* handle.join().unwrap() after drop(tx): the thread has returned, its
\* Result was discarded by `let _ =`; then Spmi::new() and the call of
\* merge_index_files(64)
JoinSpimi ==
    /\ ix_pc = "producing"
    /\ ~sender_open
    /\ spimi_state \in {"ok", "err"}
    /\ ix_pc' = "merging"
    /\ merge_state' = "ready"
    /\ UNCHANGED <<runs, metadata, merged_terms, lookup_term, lookup_id, ix_result,
                   ingest_vars, fs, codec_vars, writer_vars, postings_vars,
                   runfile_vars, directory_vars, query_vars, processor_vars,
                   phrase_vars, ranking_vars, more_vars>>

\* .unwrap() of the merge result, self.index_metadata = result, Ok(())
IndexReturn ==
    /\ ix_pc = "merging"
    /\ merge_state \in {"ok", "err"}
    /\ IF merge_state = "ok"
       THEN ix_pc' = "returned" /\ ix_result' = "Ok"
       ELSE ix_pc' = "panicked" /\ UNCHANGED ix_result
    /\ UNCHANGED <<base_vars, postings_vars, runfile_vars, directory_vars, query_vars,
                   processor_vars, phrase_vars, ranking_vars, more_vars>>

IndexNext ==
    \/ Send
    \/ SendToDroppedReceiver
    \/ CloseSender
    \/ ReceiveRecord
    \/ EndOfRecords
    \/ JoinSpimi
    \/ MergeIndexFiles
    \/ IndexReturn

SpecIndex == IndexInit /\ [][IndexNext]_vars

\* the consumer thread runs whenever recv() can return; the producer ends
\* by dropping its sender; index() goes on to the join when it can
IndexFairness ==
    /\ WF_vars(ReceiveRecord)
    /\ WF_vars(EndOfRecords)
    /\ WF_vars(CloseSender)
    /\ WF_vars(JoinSpimi)

SpecIndexFair == SpecIndex /\ IndexFairness

(***************************************************************************)
(* Dictionary harness: terms are added to an InMemoryDict in ascending     *)
(* order, one by one or as the merge loop of helpers.rs adds the terms of  *)
(* an index, and terms are looked up.                                      *)
(***************************************************************************)
\* number of add_term calls made one by one
MaxDictTerms == 6

\* number of terms the merge loop adds
LongRunTerms == 261

DictBlockSizes == {1, 2, 3, 5, 255}

\* the j-th word of an ascending list of two-byte words; the k-th term
\* added is the word 2k, so that words before, between and after the terms
\* added can be looked up
DictWord(j) == <<48 + (j \div 64), 48 + (j % 64)>>

\* the k-th add_term call
AddKth(dict, k) == in_memory_dict_add_term(dict, DictWord(2 * k), 10 * k, k)

AddedKth(k) == [term |-> DictWord(2 * k), posting_offset |-> 10 * k]

DictInit ==
    /\ CodecIdle
    /\ WriterIdle
    /\ IngestIdle
    /\ DiskIdle
    /\ MergeIdle
    /\ PostingsIdle
    /\ RunFileIdle
    /\ DirectoryIdle
    /\ QueryIdle
    /\ ProcessorIdle
    /\ PhraseIdle
    /\ RankingIdle
    /\ IndexIdle
    /\ PostingsMergeIdle
    /\ ChunkLookupIdle
    /\ \E block_size \in DictBlockSizes : dc_dict = NewInMemoryDict(block_size)
    /\ dc_added = <<>>
    /\ dc_term = <<>>
    /\ dc_result = 0

outside_dict ==
    <<base_vars, postings_vars, runfile_vars, directory_vars, query_vars, processor_vars,
      phrase_vars, ranking_vars, index_vars, postings_merge_vars, chunk_lookup_vars>>

\* InMemoryDict::add_term with the next term
DictAddTerm ==
    /\ dc_term = <<>>
    /\ Len(dc_added) < MaxDictTerms
    /\ dc_dict' = AddKth(dc_dict, Len(dc_added) + 1)
    /\ dc_added' = Append(dc_added, AddedKth(Len(dc_added) + 1))
    /\ UNCHANGED <<dc_term, dc_result, outside_dict>>

\* the merge loop: add_term for every term of the index, in order
DictAddRun ==
    /\ dc_term = <<>>
    /\ dc_added = <<>>
    /\ dc_dict' = Loop(LAMBDA st, i : [st EXCEPT !.dict = AddKth(@, i + 1)],
                       [dict |-> dc_dict, done |-> FALSE], 0, LongRunTerms).dict
    /\ dc_added' = [k \in 1 .. LongRunTerms |-> AddedKth(k)]
    /\ UNCHANGED <<dc_term, dc_result, outside_dict>>

\* InMemoryDict::find, once on the dictionary built
DictFind ==
    /\ dc_term = <<>>
    /\ \E j \in 1 .. 2 * Len(dc_added) + 1 :
          /\ dc_term' = DictWord(j)
          /\ dc_result' = find(dc_dict, DictWord(j), Len(dc_added) + 1)
    /\ UNCHANGED <<dc_dict, dc_added, outside_dict>>

DictNext == DictAddTerm \/ DictAddRun \/ DictFind

SpecDict == DictInit /\ [][DictNext]_vars

(***************************************************************************)
(* Posting merge harness: two doc-id-sorted posting lists are drawn and    *)
(* merge_postings is called on them.                                       *)
(***************************************************************************)
MergeSideDocIds == 1 .. 4

\* the doc-id-sorted list of the doc-ids D; the positions tell the side
SidePostings(D, side) ==
    LET ids == SetToSortedSeq(D)
    IN  [k \in 1 .. Len(ids) |-> [doc_id |-> ids[k], positions |-> <<side>>]]

PostingsMergeInit ==
    /\ CodecIdle
    /\ WriterIdle
    /\ IngestIdle
    /\ DiskIdle
    /\ MergeIdle
    /\ PostingsIdle
    /\ RunFileIdle
    /\ DirectoryIdle
    /\ QueryIdle
    /\ ProcessorIdle
    /\ PhraseIdle
    /\ RankingIdle
    /\ IndexIdle
    /\ DictIdle
    /\ ChunkLookupIdle
    /\ mp_stage = "input"
    /\ \E D1 \in SUBSET MergeSideDocIds : mp_p1 = SidePostings(D1, 1)
    /\ \E D2 \in SUBSET MergeSideDocIds : mp_p2 = SidePostings(D2, 2)
    /\ mp_result = <<>>

\* merge_postings(p1, p2)
MergePostings ==
    /\ mp_stage = "input"
    /\ mp_result' = merge_postings(mp_p1, mp_p2)
    /\ mp_stage' = "merged"
    /\ UNCHANGED <<mp_p1, mp_p2, base_vars, postings_vars, runfile_vars, directory_vars,
                   query_vars, processor_vars, phrase_vars, ranking_vars, index_vars,
                   dict_vars, chunk_lookup_vars>>

PostingsMergeNext == MergePostings

SpecPostingsMerge == PostingsMergeInit /\ [][PostingsMergeNext]_vars

(***************************************************************************)
(* Chunk lookup harness: a list of decoded chunks and an id are drawn and  *)
(* Block::get_chunk_for_term is called on them.                            *)
(***************************************************************************)
\* the max_doc_id values of the chunks and the ids looked up
LookupDocIds == 0 .. 4

\* the chunk lists: one to three chunks of term 1 with the given max_doc_ids
LookupChunkLists ==
    UNION {[1 .. n -> {[NewChunk(1) EXCEPT !.max_doc_id = m] : m \in LookupDocIds}]
              : n \in 1 .. 3}

ChunkLookupInit ==
    /\ CodecIdle
    /\ WriterIdle
    /\ IngestIdle
    /\ DiskIdle
    /\ MergeIdle
    /\ PostingsIdle
    /\ RunFileIdle
    /\ DirectoryIdle
    /\ QueryIdle
    /\ ProcessorIdle
    /\ PhraseIdle
    /\ RankingIdle
    /\ IndexIdle
    /\ DictIdle
    /\ PostingsMergeIdle
    /\ gc_stage = "input"
    /\ gc_id \in LookupDocIds
    /\ gc_chunks \in LookupChunkLists
    /\ gc_result = <<>>

\* block.get_chunk_for_term(id, &chunks)
GetChunkForTerm ==
    /\ gc_stage = "input"
    /\ gc_result' = get_chunk_for_term(gc_id, gc_chunks)
    /\ gc_stage' = "called"
    /\ UNCHANGED <<gc_id, gc_chunks, base_vars, postings_vars, runfile_vars, directory_vars,
                   query_vars, processor_vars, phrase_vars, ranking_vars, index_vars,
                   dict_vars, postings_merge_vars>>

ChunkLookupNext == GetChunkForTerm

SpecChunkLookup == ChunkLookupInit /\ [][ChunkLookupNext]_vars

(***************************************************************************)
(* Claims about the codecs (checked under SpecCodec).                      *)
(***************************************************************************)
\* C8: VarByte round trip. Once vb_decode has run on a buffer that starts
\* with vb_encode(n), whatever bytes follow, it has returned the number n
\* and a consumed length equal to the length of vb_encode(n), and no step
\* of the decoding left u32.
C8_VbRoundTrip ==
    vb_stage = "decoded" =>
        /\ vb_res.number = vb_num
        /\ vb_res.bytes_read = Len(vb_encode(vb_num))
        /\ vb_res.bytes_read = Len(vb_buf) - Len(vb_tail)
        /\ ~vb_res.overflow

\* a three-byte encoding followed by further bytes has been decoded
C8_Witness ==
    /\ vb_stage = "decoded"
    /\ vb_num = 16384
    /\ vb_tail = <<1, 128>>
    /\ vb_res.bytes_read = 3

\* the value of a big-endian sequence of base-128 digits
RECURSIVE Base128Value(_)
Base128Value(digits) ==
    IF digits = <<>> THEN 0
    ELSE Base128Value(SubSeq(digits, 1, Len(digits) - 1)) * 128
             + digits[Len(digits)]

\* C9: VarByte format. The encoding of n is the shortest big-endian
\* sequence of the base-128 digits of n, every byte but the last below
\* 128 and the last one its digit plus 128; VB(0) = [0x80],
\* VB(127) = [0xFF], VB(128) = [0x01, 0x80], VB(16384) = [0x01, 0x00, 0x80].
C9_VbFormat ==
    vb_stage = "encoded" =>
        LET enc == SubSeq(vb_buf, 1, Len(vb_buf) - Len(vb_tail))
            k == Len(enc)
            digits == [i \in 1 .. k |-> IF i = k THEN enc[i] - 128 ELSE enc[i]]
        IN  /\ k >= 1
            /\ \A i \in 1 .. k - 1 : enc[i] \in 0 .. 127
            /\ enc[k] \in 128 .. 255
            /\ Base128Value(digits) = vb_num
            /\ k > 1 => enc[1] # 0
            /\ vb_num = 0 => enc = <<128>>
            /\ vb_num = 127 => enc = <<255>>
            /\ vb_num = 128 => enc = <<1, 128>>
            /\ vb_num = 16384 => enc = <<1, 0, 128>>

\* a number with an inner zero digit has been encoded
C9_Witness ==
    /\ vb_stage = "encoded"
    /\ vb_num = 16384
    /\ Len(vb_buf) - Len(vb_tail) = 3

\* C10: position codec round trip. Decoding the encoding of a strictly
\* ascending position list (empty, or starting at 0, included) gives the
\* list back, and the encoding is the first position followed by the
\* differences between neighbours, each in VarByte.
RECURSIVE DeltaEncoding(_, _)
DeltaEncoding(positions, i) ==
    IF i > Len(positions) THEN <<>>
    ELSE vb_encode(IF i = 1 THEN positions[1]
                   ELSE positions[i] - positions[i - 1])
             \o DeltaEncoding(positions, i + 1)

C10_PositionRoundTrip ==
    /\ pos_stage \in {"encoded", "decoded"} =>
           pos_buf = DeltaEncoding(pos_in, 1)
    /\ pos_stage = "decoded" => pos_res = pos_in

\* a list that starts at position 0 and has later positions was decoded
C10_Witness ==
    /\ pos_stage = "decoded"
    /\ Len(pos_in) = 3
    /\ pos_in[1] = 0
    /\ pos_in[3] >= 16384

(***************************************************************************)
(* Claims about the merged index writer (SpecWriter) and the reading of    *)
(* its file (SpecReader).                                                  *)
(***************************************************************************)
RECURSIVE SumChunkBytes(_, _)
\* the bytes the chunks chunks[i..] take in an encoded block
SumChunkBytes(chunks, i) ==
    IF i > Len(chunks) THEN 0
    ELSE Len(ChunkEncode(chunks[i])) + SumChunkBytes(chunks, i + 1)

\* 4-byte term count + 6 bytes per term + the bytes of all chunks
EncodedContentBytes(blk) ==
    4 + 6 * Len(blk.terms) + SumChunkBytes(blk.chunks, 1)

\* C3: every block written to the index file has an encoded content of at
\* most max_block_size * 1000 bytes, whatever postings add_term was given.
C3_BlockWithinMaxSize ==
    \A b \in 1 .. Len(writer.file) :
        EncodedContentBytes(writer.file[b]) <= MaxBlockBytes(writer)

\* the chunks of block block_id, written or still current
ChunksOfBlock(block_id) ==
    IF block_id < Len(writer.file) THEN writer.file[block_id + 1].chunks
    ELSE IF ~finished /\ block_id = writer.current_block_no
         THEN writer.current_block.chunks
    ELSE <<>>

\* the chunks block block_id holds for a term
TermChunksInBlock(term, block_id) ==
    SelectSeq(ChunksOfBlock(block_id), LAMBDA c : c.term = term)

\* the ids of the blocks, written or current, with a chunk of the term
BlocksWithChunksOf(term) ==
    {b \in 0 .. writer.current_block_no : TermChunksInBlock(term, b) # <<>>}

\* the ids of the blocks with a chunk of the term that holds a posting
BlocksWithPostingsOf(term) ==
    {b \in 0 .. writer.current_block_no :
        \E k \in 1 .. Len(TermChunksInBlock(term, b)) :
            TermChunksInBlock(term, b)[k].no_of_postings > 0}

\* C4: round trip. After finish, reading the blocks named in a term's
\* block-ids in order, decoding its chunks, the doc-id stream of each and
\* the positions of every posting, and concatenating, gives exactly the
\* posting list add_term was called with.
C4_WriterReaderRoundTrip ==
    read_term # 0 =>
        /\ read_result.status = "ok"
        /\ read_result.postings = added[read_term]

\* C5: chunk cap. A term with n >= 1 postings that all went into one block
\* has exactly ceil(n / 128) chunks in it, none with more than 128
\* postings: 128 postings make one chunk, 129 make two.
C5_ChunkCap ==
    \A term \in DOMAIN writer.term_metadata :
        LET n == Len(added[term])
            ids == writer.term_metadata[term].block_ids
            chunks == TermChunksInBlock(term, ids[1])
        IN  (n >= 1 /\ Len(ids) = 1) =>
                /\ Len(chunks) = (n + 127) \div 128
                /\ \A k \in 1 .. Len(chunks) : chunks[k].no_of_postings <= 128

\* C6: block ids. The block_ids recorded for a term are the ids of the
\* blocks that hold chunks of it, each once, ascending and consecutive; a
\* term whose postings lie in two blocks has exactly two block-ids; the
\* recorded term_frequency is the number of postings given to add_term.
C6_BlockIds ==
    \A term \in DOMAIN writer.term_metadata :
        LET ids == writer.term_metadata[term].block_ids
        IN  /\ {ids[k] : k \in 1 .. Len(ids)} = BlocksWithChunksOf(term)
            /\ \A k \in 1 .. Len(ids) - 1 : ids[k + 1] = ids[k] + 1
            /\ Cardinality(BlocksWithPostingsOf(term)) = 2 => Len(ids) = 2
            /\ writer.term_metadata[term].term_frequency = Len(added[term])
(***************************************************************************)
(* Claims about the ingest (SpecIngest).                                   *)
(***************************************************************************)
RECURSIVE IteratorEntries(_)
\* the (term, postings) entries an iterator yields from where it stands
IteratorEntries(it) ==
    IF it.err \/ ~it.current_term.some THEN <<>>
    ELSE <<[term |-> it.current_term.v, postings |-> it.current_postings.v]>>
             \o IteratorEntries(iterator_next(it))

\* the entries of a run file
RunFileEntries(bytes) == IteratorEntries(iterator_init(NewIterator(bytes)))

\* the places (file, entry, index) at which the run files hold the posting
\* of a record under the record's term
PlacesOf(record) ==
    {place \in {<<p, e, i>> : p \in DOMAIN fs, e \in 1 .. MaxRecords,
                              i \in 1 .. MaxRecords} :
        LET entries == RunFileEntries(fs[place[1]])
        IN  /\ place[2] <= Len(entries)
            /\ entries[place[2]].term = record.term
            /\ place[3] <= Len(entries[place[2]].postings)
            /\ entries[place[2]].postings[place[3]] = record.posting}

\* C1: once the sender is closed and single_pass_in_memory_indexing has
\* returned, the posting of every record sent is in exactly one run file
\* under its term, once: no record is dropped and none is written twice,
\* whatever the max-size of the dictionary.
C1_EveryRecordInOneRun ==
    spimi_state = "ok" =>
        \A k \in 1 .. Len(sent) : Cardinality(PlacesOf(sent[k])) = 1

(***************************************************************************)
(* Claims about the merge (SpecMerge).                                     *)
(***************************************************************************)
\* the terms of the runs drawn
AllRunTerms == UNION {DOMAIN runs[r].dictionary : r \in 1 .. Len(runs)}

\* the postings the runs hold for a term
RunPostingsOf(term) ==
    UNION {{runs[r].dictionary[term][k] : k \in 1 .. Len(runs[r].dictionary[term])} :
              r \in {q \in 1 .. Len(runs) : term \in DOMAIN runs[q].dictionary}}

\* a posting list is ascending by doc-id, strictly
AscendingDocIds(postings) ==
    \A k \in 1 .. Len(postings) - 1 : postings[k].doc_id < postings[k + 1].doc_id

C7_TermIds ==
    merge_state = "ok" =>
        LET terms == DOMAIN metadata.term_map
            id(t) == metadata.term_map[t].term_id
        IN  /\ terms = AllRunTerms
            /\ {id(t) : t \in terms} = 1 .. Cardinality(AllRunTerms)
            /\ \A t1, t2 \in terms : id(t1) < id(t2) <=> StrLess(t1, t2)
            /\ \A t \in terms : id(t) # 0
            /\ lookup_term.some =>
                  (lookup_id = 0 <=> lookup_term.v \notin terms)

\* a directory of three terms in which a missing term was looked up
C7_Witness ==
    /\ merge_state = "ok"
    /\ Cardinality(DOMAIN metadata.term_map) = 3
    /\ lookup_term.some
    /\ lookup_term.v \notin DOMAIN metadata.term_map
    /\ lookup_id = 0

(***************************************************************************)
(* Claims on the posting-list codec (SpecPostings).                        *)
(***************************************************************************)
\* C11: for every posting list with strictly ascending doc-ids and strictly
\* ascending positions per posting, with any number of positions per
\* posting and including postings with no position,
\* vb_decode_posting_list(vb_encode_posting_list(L)) = L.
C11_PostingListRoundTrip ==
    pl_stage = "decoded" => pl_res = pl_in

(***************************************************************************)
(* Claims on run files and their iterator (SpecRunFile).                   *)
(***************************************************************************)
\* the (term, posting-list) pairs of the dictionary written, in ascending
\* term order
DictionaryPairs(d) ==
    LET sorted_terms == sort_terms(d)
    IN  [k \in 1 .. Len(sorted_terms) |->
            [term |-> sorted_terms[k], postings |-> d.dictionary[sorted_terms[k]]]]

\* next() has returned false, or init() found no term
IteratorExhausted ==
    /\ rf_stage = "iterating"
    /\ \/ rf_it.no_of_terms = 0
       \/ \E k \in 1 .. Len(rf_returns) : rf_returns[k] = "false"

\* C12: writing a dictionary with write_dictionary_to_disk(sort_terms()) and
\* reading the file back with the iterator (init, then next until it
\* returns false) yields exactly the dictionary's (term, posting-list)
\* pairs, each once, in strictly ascending term order, and the u32 term
\* count of the file header is the number of pairs read.
C12_RunFileRoundTrip ==
    IteratorExhausted =>
        /\ rf_seen = DictionaryPairs(rf_dict)
        /\ \A k \in 1 .. Len(rf_seen) - 1 : StrLess(rf_seen[k].term, rf_seen[k + 1].term)
        /\ u32_from_le_bytes(SubSeq(rf_file, 1, 4)) = Len(rf_seen)

\* C13: after init() on a run file with n terms the iterator exposes the n
\* terms in file order, one per step: init loads the first, each of the
\* next n-1 calls of next() returns true and loads the following one, the
\* n-th returns false and sets current_term and current_postings to
\* absent, and every later call returns false and leaves both absent; for
\* n = 0 init() leaves both absent.
C13_IteratorCursor ==
    rf_stage = "iterating" =>
        LET file_terms == sort_terms(rf_dict)
            n == Len(file_terms)
            calls == Len(rf_returns)
            loaded == IF calls + 1 < n THEN calls + 1 ELSE n
        IN  /\ ~rf_it.err
            /\ rf_it.no_of_terms = n
            /\ \A k \in 1 .. calls :
                  rf_returns[k] = IF k < n THEN "true" ELSE "false"
            /\ [k \in 1 .. Len(rf_seen) |-> rf_seen[k].term] = SubSeq(file_terms, 1, loaded)
            /\ IF calls >= n
               THEN rf_it.current_term = None /\ rf_it.current_postings = None
               ELSE /\ rf_it.current_term = Some(file_terms[calls + 1])
                    /\ rf_it.current_postings.some

\* a file of two terms or more on which next() was called twice after it
\* first returned false
C13_Witness ==
    /\ rf_stage = "iterating"
    /\ rf_it.no_of_terms >= 2
    /\ Len(rf_returns) >= rf_it.no_of_terms + 2
    /\ rf_it.current_term = None

(***************************************************************************)
(* Claims on the term directory (SpecDirectory).                           *)
(***************************************************************************)
\* C14: looking up the metadata of a term that is not in the term directory
\* returns an absent value: the call is not an error, does not panic, and
\* leaves the directory unchanged.
C14_AbsentTermMetadata ==
    (md_term.some /\ md_term.v \notin DOMAIN metadata.term_map) =>
        md_result.outcome = "absent"

(***************************************************************************)
(* Claims on the query entry point (SpecQuery).                            *)
(***************************************************************************)
\* every whitespace-separated word of the query cleans to the empty string
YieldsNoToken(query) ==
    LET words == split_whitespace(query, 1, <<>>)
    IN  \A k \in 1 .. Len(words) : clean_word(words[k]) = <<>>

\* C15: handle_query fails with an empty-query error for every query string
\* that yields zero tokens: empty and whitespace-only strings, and strings
\* in which every word cleans to the empty string (a query made only of
\* punctuation); it never goes on with an empty token list.
C15_EmptyQueryFails ==
    (q_stage = "handled" /\ YieldsNoToken(q_query)) =>
        q_result.result # "Ok"

(***************************************************************************)
(* Claims on the conjunctive match (SpecProcessor).                        *)
(***************************************************************************)
\* docs(t): the union of the doc-ids in t's chunks over the blocks of t's
\* block-ids
DocsOfTerm(term_id) ==
    get_doc_ids_for_term(qp_index.file, qp_index.term_metadata[term_id].block_ids,
                         term_id).doc_ids

\* C16: for every query whose terms are all in the directory, the doc-id
\* set process_query computes (seed = the term with the least document
\* frequency, then an intersect for every other term) is the intersection
\* over the query terms t of docs(t), also when the postings of a term
\* that is not the seed span two blocks or more.
C16_ConjunctiveMatch ==
    (qp_stage = "answered" /\ ~qp_result.panic) =>
        qp_result.doc_ids =
            {d \in QueryDocIds : \A k \in 1 .. Len(qp_query) :
                                     d \in DocsOfTerm(qp_query[k])}

(***************************************************************************)
(* Claims on the phrase filter (SpecPhrase).                               *)
(***************************************************************************)
\* the documents that contain every word of the query
DocsWithAllWords(docs, words) ==
    {d \in 1 .. Len(docs) : \A i \in 1 .. Len(words) : words[i] \in SeqToSet(docs[d])}

\* the documents in which the words occur at p, p + 1, .. in query order
DocsWithPhrase(docs, words) ==
    {d \in 1 .. Len(docs) :
        \E p \in 1 .. Len(docs[d]) :
            \A i \in 1 .. Len(words) :
                /\ p + i - 1 <= Len(docs[d])
                /\ docs[d][p + i - 1] = words[i]}

\* C17: with phrase matching on, find_documents_optimized returns a doc-id
\* iff the document contains every query term and there is a position p
\* such that the i-th term of the query, in query order, occurs at p + i;
\* the order used is the order of the terms in the query.
C17_PhraseInQueryOrder ==
    (ph_stage = "found" /\ ph_phrase) =>
        SeqToSet(ph_result) = DocsWithPhrase(ph_docs, ph_words)

\* C18: with phrase matching off, find_documents_optimized returns exactly
\* the documents that contain every query term, whatever the positions of
\* the terms.
C18_ConjunctionWithoutPhrase ==
    (ph_stage = "found" /\ ~ph_phrase) =>
        SeqToSet(ph_result) = DocsWithAllWords(ph_docs, ph_words)

(***************************************************************************)
(* Claims on the ranking workers (SpecRanking).                            *)
(***************************************************************************)
\* the documents variant w matches: every word present, and for the phrase
\* variant the words in a row; a variant without words matches nothing
VariantDocs(in, w) ==
    LET c == captured(in, w)
        docs == IF w = 2 THEN [d \in 1 .. Len(in.docs) |-> Bigrams(in.docs[d])]
                ELSE in.docs
    IN  IF c.words = <<>> THEN {}
        ELSE IF c.phrase_matching THEN DocsWithPhrase(docs, c.words)
        ELSE DocsWithAllWords(docs, c.words)

\* the top-k lists of variant w: at most TopK of its documents, by
\* non-increasing score
VariantTopK(in, w) ==
    top_k_lists({[doc_id |-> d, score |-> captured(in, w).scores[d]] :
                    d \in VariantDocs(in, w)}, TopK)

\* C19: for every interleaving of the three ranking workers, the
\* coordinator returns with query_result being the top-k list of variant a
\* (unigram, phrase filter) followed by that of variant b (bigram, no
\* phrase filter) followed by that of variant c (unigram, no phrase
\* filter), each of at most k = 2 entries by non-increasing score,
\* duplicates across variants kept.
C19_RankedConcatenation ==
    rk_co.pc.stage = "returned" =>
        \E a \in VariantTopK(rk_in, 1), b \in VariantTopK(rk_in, 2),
           c \in VariantTopK(rk_in, 3) :
            rk_co.query_result = a \o b \o c

(***************************************************************************)
(* Claims on Indexer::index (SpecIndex).                                   *)
(***************************************************************************)
\* C20: if writing a run file fails during single_pass_in_memory_indexing,
\* at a mid-stream flush or at the final flush, index() returns the error:
\* the merge is not started, nobody panics, and the value returned is Err.
C20_RunFileErrorReturned ==
    spimi_state = "err" =>
        /\ ix_pc # "panicked"
        /\ merge_state = "off"
        /\ ix_pc = "returned" => ix_result = "Err"

(***************************************************************************)
(* Claims on the run files of the SPIMI pass (SpecIngest).                 *)
(***************************************************************************)
\* a step that writes a run file
Flushes == spimi_state = "running" /\ fs' # fs

\* C21: every flush of the SPIMI dictionary, mid-stream or final, writes a
\* run file of index_directory with the extension idx under a name no
\* earlier flush used, so that no flush overwrites an earlier run.
C21_FreshRunFilePerFlush ==
    [][Flushes =>
          \E p \in DOMAIN fs' \ DOMAIN fs : p.dir = "index_directory" /\ p.ext = "idx"]_vars

(***************************************************************************)
(* Claims on the producer and the consumer of Indexer::index               *)
(* (SpecIndexFair).                                                        *)
(***************************************************************************)
\* the records received followed by those still queued are the records sent
ReceivedInSendOrder == received \o channel = sent

\* the consumer has returned Ok only after the sender was dropped and the
\* queue drained, with every record received and the final flush written
EndsAfterDrain ==
    spimi_state = "ok" =>
        /\ ~sender_open
        /\ channel = <<>>
        /\ received = sent
        /\ RunFileName \in DOMAIN fs

\* C22: in Indexer::index, under every interleaving of the producer and
\* the SPIMI consumer thread, the consumer receives every record sent, in
\* send order; it does not terminate while the sender is open or records
\* are queued; and when no I/O error occurs, once the sender is dropped the
\* consumer drains the queue, does the final flush and terminates, and
\* the join of index() returns.
C22_ConsumerDrainsAndJoins ==
    /\ [](ReceivedInSendOrder /\ EndsAfterDrain)
    /\ ([](spimi_state # "err")) =>
           ((~sender_open /\ ix_pc = "producing")
                ~> (spimi_state = "ok" /\ ix_pc # "producing"))

\* every record of a full run was received, the consumer ended and the
\* join returned
C22_Witness ==
    /\ Len(sent) = MaxRecords
    /\ received = sent
    /\ spimi_state = "ok"
    /\ ix_pc = "merging"

(***************************************************************************)
(* Claims on the blocked term dictionary (SpecDict).                       *)
(***************************************************************************)
\* the posting offset given for a term when it was added, -1 for a term
\* that was not added
OffsetGiven(terms, term) ==
    LET at == {k \in 1 .. Len(terms) : terms[k].term = term}
    IN  IF at = {} THEN -1 ELSE terms[CHOOSE k \in at : TRUE].posting_offset

\* C23: for every ascending sequence of distinct terms added with add_term
\* and every block size, find(t) terminates and returns the posting offset
\* given for t when t was added, and -1 for every term that was not added.
C23_FindReturnsOffsetGiven ==
    dc_term # <<>> =>
        /\ dc_result.terminated
        /\ dc_result.value = OffsetGiven(dc_added, dc_term)

(***************************************************************************)
(* Claims on merge_postings (SpecPostingsMerge).                           *)
(***************************************************************************)
\* the place of a posting in a list that holds it once
PlaceIn(list, posting) == CHOOSE k \in 1 .. Len(list) : list[k] = posting

\* C24: merge_postings(p1, p2) on two doc-id-sorted lists returns a
\* doc-id-sorted list of length |p1| + |p2| holding every posting of both;
\* when a doc-id occurs in both, both postings are kept and the posting of
\* p1, the left argument, comes before the posting of p2.
C24_MergeLeftFirstOnTie ==
    mp_stage = "merged" =>
        /\ Len(mp_result) = Len(mp_p1) + Len(mp_p2)
        /\ \A k \in 1 .. Len(mp_result) - 1 :
              mp_result[k].doc_id <= mp_result[k + 1].doc_id
        /\ SeqToSet(mp_result) = SeqToSet(mp_p1) \cup SeqToSet(mp_p2)
        /\ \A i \in 1 .. Len(mp_p1), j \in 1 .. Len(mp_p2) :
              mp_p1[i].doc_id = mp_p2[j].doc_id =>
                  PlaceIn(mp_result, mp_p1[i]) < PlaceIn(mp_result, mp_p2[j])

(***************************************************************************)
(* Claims about the header of the written blocks (SpecWriter).             *)
(***************************************************************************)
\* the term count in the first four bytes of a written block
HeaderTermCount(bb) == u32_from_le_bytes(BytesAt(bb, 0, 4))

\* the k-th term-id of the header, k = 1 .. n
HeaderTermId(bb, k) == u32_from_le_bytes(BytesAt(bb, 4 * k, 4 * k + 4))

\* the k-th term-offset of a header with n term-ids
HeaderTermOffset(bb, n, k) ==
    u16_from_le_bytes(BytesAt(bb, 4 + 4 * n + 2 * (k - 1), 4 + 4 * n + 2 * k))

\* the index of the first chunk of a term in the chunks of a block
FirstChunkOf(chunks, term) ==
    Min({i \in 1 .. Len(chunks) : chunks[i].term = term})

\* the bytes the chunks of a term take in the encoded block
TermChunkBytes(chunks, term) ==
    SumChunkBytes(SelectSeq(chunks, LAMBDA c : c.term = term), 1)

\* C25: block header. In every block written after add_term calls with
\* strictly ascending term-ids, the header holds N term-ids and exactly N
\* term-offsets (the first chunk starts at 4 + 6N); the term-ids are
\* strictly ascending; the first offset is 4 + 6N; the offsets are strictly
\* ascending, each the previous one plus the bytes of the previous term's
\* chunks, each the byte offset at which the first chunk of its term lies,
\* each in [4 + 6N, max block size) and below 2^16.
C25_BlockHeaderOffsets ==
    \A b \in 1 .. Len(writer.file) :
        LET blk == writer.file[b]
            bb == blk.block_bytes
            N == HeaderTermCount(bb)
            off(k) == HeaderTermOffset(bb, N, k)
        IN  /\ N = Len(blk.terms)
            /\ \A k \in 1 .. N : HeaderTermId(bb, k) = blk.terms[k]
            /\ \A k \in 1 .. N - 1 : HeaderTermId(bb, k) < HeaderTermId(bb, k + 1)
            /\ N >= 1 => off(1) = 4 + 6 * N
            /\ \A k \in 1 .. N - 1 :
                  /\ off(k) < off(k + 1)
                  /\ off(k + 1) = off(k) + TermChunkBytes(blk.chunks, blk.terms[k])
            /\ \A k \in 1 .. N :
                  /\ \E i \in 1 .. Len(blk.chunks) : blk.chunks[i].term = blk.terms[k]
                  /\ LET i == FirstChunkOf(blk.chunks, blk.terms[k])
                         at == 4 + 6 * N + SumChunkBytes(SubSeq(blk.chunks, 1, i - 1), 1)
                     IN  /\ off(k) = at
                         /\ at <= U16Max
                         /\ BytesAt(bb, off(k), off(k) + Len(ChunkEncode(blk.chunks[i])))
                                = ChunkEncode(blk.chunks[i])
                  /\ off(k) >= 4 + 6 * N
                  /\ off(k) < MaxBlockBytes(writer)

\* a written block with two terms, the first of them with two chunks
C25_Witness ==
    \E b \in 1 .. Len(writer.file) :
        LET blk == writer.file[b]
        IN  /\ Len(blk.terms) >= 2
            /\ Len(SelectSeq(blk.chunks, LAMBDA c : c.term = blk.terms[1])) >= 2
            /\ HeaderTermOffset(blk.block_bytes, 2, 2) > HeaderTermOffset(blk.block_bytes, 2, 1)

(***************************************************************************)
(* Claims about the chunks of the written blocks (SpecWriter).             *)
(***************************************************************************)
RECURSIVE WrittenChunksOf(_, _)
\* the chunks of a term in the written blocks b, b + 1, .., in file order
WrittenChunksOf(term, b) ==
    IF b > Len(writer.file) THEN <<>>
    ELSE SelectSeq(writer.file[b].chunks, LAMBDA c : c.term = term)
             \o WrittenChunksOf(term, b + 1)

RECURSIVE PostingsBefore(_, _)
\* the number of postings put in the chunks before chunks[j]
PostingsBefore(chunks, j) ==
    IF j <= 1 THEN 0
    ELSE chunks[j - 1].no_of_postings + PostingsBefore(chunks, j - 1)

\* the 0x00-terminated groups of a positions stream
PositionGroups(positions) ==
    Cardinality({k \in 1 .. Len(positions) : positions[k] = POSITIONS_DELIMITER})

\* the VarByte numbers of a doc-id stream (one terminator byte each)
EncodedDocIds(doc_ids) ==
    Cardinality({k \in 1 .. Len(doc_ids) : doc_ids[k] >= 128})

\* C26: position groups. For every chunk add_term produced from postings
\* with strictly ascending doc-ids and ascending positions, the number of
\* 0x00-terminated groups of its positions stream equals the number of
\* doc-ids of its doc-id stream and the number of postings put in it, and
\* get_posting_list(i) returns the positions of the chunk's i-th posting.
C26_PositionGroupsMatchPostings ==
    \A term \in 1 .. Len(added) :
        LET chunks == WrittenChunksOf(term, 1)
        IN  \A j \in 1 .. Len(chunks) :
                /\ EncodedDocIds(chunks[j].doc_ids) = chunks[j].no_of_postings
                /\ PositionGroups(chunks[j].positions) = chunks[j].no_of_postings
                /\ \A i \in 1 .. chunks[j].no_of_postings :
                      get_posting_list(chunks[j], i - 1) =
                          [panic |-> FALSE,
                           positions |->
                               added[term][PostingsBefore(chunks, j) + i].positions]

\* the chunks decode_chunks_for_term returns for the last term of the
\* written block b (1-based in the file)
LastTermDecoded(b) ==
    LET block == BlockInit(writer.file, b - 1)
    IN  decode_chunks_for_term(block, block.terms[Len(block.terms)],
                               Len(block.terms) - 1)

\* C27: zero padding. In every block written to the index file all bytes
\* behind the end of the last chunk are zero, also when an earlier block
\* with more content went through the same buffer; so decoding the chunks
\* of the last term of a block gives exactly the chunks written for that
\* term in that block, with their sizes and max doc-ids, and nothing else.
C27_ZeroBehindLastChunk ==
    \A b \in 1 .. Len(writer.file) :
        LET blk == writer.file[b]
            written == SelectSeq(blk.chunks,
                                 LAMBDA c : c.term = blk.terms[Len(blk.terms)])
        IN  /\ \A k \in EncodedContentBytes(blk) + 1 .. Len(blk.block_bytes) :
                  blk.block_bytes[k] = 0
            /\ Len(blk.terms) >= 1 =>
                  /\ ~LastTermDecoded(b).panic
                  /\ Len(LastTermDecoded(b).chunks) = Len(written)
                  /\ \A k \in 1 .. Len(written) :
                        /\ LastTermDecoded(b).chunks[k].size_of_chunk
                               = written[k].size_of_chunk
                        /\ LastTermDecoded(b).chunks[k].max_doc_id
                               = written[k].max_doc_id

(***************************************************************************)
(* Claims about the index file the merge leaves (SpecMerge).               *)
(***************************************************************************)
\* the length of final.idx: every block is written as BLOCK_SIZE bytes
FinalIndexLength == Len(writer.file) * BLOCK_SIZE

\* C28: when merge_index_files returns Ok over runs that hold a term, every
\* block id in the block-ids of a directory entry is the id of a block
\* written to final.idx, the last, partly filled block included:
\* (b + 1) * BLOCK_SIZE <= length of final.idx.
C28_BlockIdsWritten ==
    (merge_state = "ok" /\ AllRunTerms # {}) =>
        \A term \in DOMAIN metadata.term_map :
            \A k \in 1 .. Len(metadata.term_map[term].block_ids) :
                (metadata.term_map[term].block_ids[k] + 1) * BLOCK_SIZE
                    <= FinalIndexLength

(***************************************************************************)
(* Claims on the size estimate of the SPIMI dictionary (SpecIngest).       *)
(***************************************************************************)
\* 4 + |name| over the terms held plus 4 + 4 * |positions| over the
\* postings held
HeldBytes(d) ==
    LET names == sort_terms(d)
        posting_bytes(list) ==
            SumSeq([p \in 1 .. Len(list) |-> 4 + 4 * Len(list[p].positions)], 1)
    IN  SumSeq([k \in 1 .. Len(names) |->
                   4 + Len(names[k]) + posting_bytes(d.dictionary[names[k]])], 1)

\* C29: size() is always the bytes accounted for the terms and postings the
\* dictionary holds: after clear() it holds no term and size() is 0, so
\* that after a flush the next flush comes only when the records stored
\* since then account for max_size() bytes.
C29_SizeIsBytesHeld ==
    /\ dictionary.current_size = HeldBytes(dictionary)
    /\ dictionary.current_size >= max_size => HeldBytes(dictionary) >= max_size

(***************************************************************************)
(* Claims on the chunk lookup (SpecChunkLookup).                           *)
(***************************************************************************)
\* the indexes of the chunks whose max_doc_id is not below the id
ChunksReaching(id, chunks) ==
    {k \in 1 .. Len(chunks) : chunks[k].max_doc_id >= id}

\* C30: Block::get_chunk_for_term(id, chunks) terminates for every
\* non-empty chunk list and every id, and returns the first chunk of the
\* list whose max_doc_id is >= id when there is one.
C30_ChunkLookupReturns ==
    gc_stage = "called" =>
        /\ gc_result.outcome # "loops"
        /\ ChunksReaching(gc_id, gc_chunks) # {} =>
              /\ gc_result.outcome = "returned"
              /\ gc_result.chunk = Some(gc_chunks[Min(ChunksReaching(gc_id, gc_chunks))])
====
